---------------------------- MODULE Spec2Model ----------------------------
(***************************************************************************)
(* Model of the chart-configuration engine of sgraphs: the value helpers   *)
(* (isFloatOrInt, parseFloatOrText, parseDate, isDateString,               *)
(* compareValues), the axis selector computeLabels, the policies           *)
(* shouldUseBarChart / shouldSumData, the reshaper (processedDataset of    *)
(* GovDataChart) and calculateDomain.                                      *)
(*                                                                         *)
(* JavaScript values are records [t, n, s]:                                *)
(*   t = "num"   a finite number, n = the number in thousandths            *)
(*   t = "nan"   the number NaN                                            *)
(*   t = "exp"   a finite number that String() writes in exponent          *)
(*               notation: n * 10^-7 with 1 <= |n| <= 9                    *)
(*   t = "str"   a string, s = its sequence of characters                  *)
(*   t = "null" / "undef"                                                  *)
(* Numbers are exact decimals with three fractional digits; the data drawn *)
(* by the specifications carry at most one, so that the 5%, 10%, 20% and   *)
(* 110% factors of calculateDomain are exact.  Timestamps are counted in   *)
(* hours since the epoch instead of milliseconds.                          *)
(***************************************************************************)
EXTENDS Integers, Sequences, FiniteSets, TLC

VARIABLES
  fields,       \* result.fields: sequence of field ids
  records,      \* result.records: sequence of records (field id -> value)
  xKey, yKey,   \* chosen axes
  series,       \* chosen series key, or Null
  sumData,      \* aggregation mode
  useBarChart,  \* chart type
  dataset,      \* processed dataset: series id -> sequence of points
  emitted,      \* the points of a series that were fed to the reshaper again
  domain,       \* [xMin, xMax, yMin, yMax]
  error,        \* the error that computeLabels threw, if any
  pc,           \* position of the pipeline / of the call under study
  a, b, c,      \* operands of compareValues
  cmp,          \* results of compareValues on (a,b), (b,a), (b,c), (a,c)
  value,        \* inputs of parseDate
  parsed,       \* results of parseDate
  isLoaded,     \* the dataset request of the selection has been answered
  currentRequestId,  \* currentRequestIdRef.current
  requests      \* the dataset requests issued: request id -> [phase, aborted]

vars == <<fields, records, xKey, yKey, series, sumData, useBarChart, dataset,
          emitted, domain, error, pc, a, b, c, cmp, value, parsed, isLoaded,
          currentRequestId, requests>>

-----------------------------------------------------------------------------
(* Bounds of the model *)

\* local time zone, hours east of UTC
TzHours == 8

\* thousandths per unit
Scale == 10 * 100

-----------------------------------------------------------------------------
(* JavaScript values *)

Num(n) == [t |-> "num", n |-> n, s |-> <<>>]
Str(s) == [t |-> "str", n |-> 0, s |-> s]
NaN == [t |-> "nan", n |-> 0, s |-> <<>>]
Exp7(n) == [t |-> "exp", n |-> n, s |-> <<>>]
Null == [t |-> "null", n |-> 0, s |-> <<>>]
Undef == [t |-> "undef", n |-> 0, s |-> <<>>]

IsNumber(v) == v.t = "num"
IsString(v) == v.t = "str"
\* typeof v === 'number'
TypeofNumber(v) == v.t \in {"num", "nan", "exp"}
\* v === null || v === undefined
IsNullish(v) == v.t \in {"null", "undef"}
\* !v
Falsy(v) ==
  \/ IsNullish(v)
  \/ v.t = "nan"
  \/ v.t = "num" /\ v.n = 0
  \/ v.t = "str" /\ v.s = <<>>

Digit == {"0", "1", "2", "3", "4", "5", "6", "7", "8", "9"}
DigitChars == <<"0", "1", "2", "3", "4", "5", "6", "7", "8", "9">>
DigitVal(ch) == (CHOOSE i \in 1..10 : DigitChars[i] = ch) - 1

Abs(x) == IF x < 0 THEN -x ELSE x
Sign(x) == IF x < 0 THEN -1 ELSE IF x > 0 THEN 1 ELSE 0
Min2(x, y) == IF x <= y THEN x ELSE y
Max2(x, y) == IF x >= y THEN x ELSE y
AllDigits(s) == \A i \in 1..Len(s) : s[i] \in Digit

RECURSIVE NatToChars(_)
NatToChars(k) ==
  IF k < 10 THEN <<DigitChars[k + 1]>>
  ELSE NatToChars(k \div 10) \o <<DigitChars[(k % 10) + 1]>>

RECURSIVE CharsToNat(_)
CharsToNat(s) ==
  IF s = <<>> THEN 0
  ELSE 10 * CharsToNat(SubSeq(s, 1, Len(s) - 1)) + DigitVal(s[Len(s)])

\* fractional digits of a number of thousandths, trailing zeros dropped
FracChars(f) ==
  IF f = 0 THEN <<>>
  ELSE IF f % 100 = 0 THEN <<".", DigitChars[(f \div 100) + 1]>>
  ELSE IF f % 10 = 0
    THEN <<".", DigitChars[(f \div 100) + 1], DigitChars[((f \div 10) % 10) + 1]>>
  ELSE <<".", DigitChars[(f \div 100) + 1], DigitChars[((f \div 10) % 10) + 1],
         DigitChars[(f % 10) + 1]>>

\* Number.prototype.toString of a finite number
NumberToString(n) ==
  (IF n < 0 THEN <<"-">> ELSE <<>>)
    \o NatToChars(Abs(n) \div Scale) \o FracChars(Abs(n) % Scale)

\* String(v)
StringOf(v) ==
  CASE v.t = "str" -> v.s
    [] v.t = "num" -> NumberToString(v.n)
    [] v.t = "exp" -> (IF v.n < 0 THEN <<"-">> ELSE <<>>)
                        \o <<DigitChars[Abs(v.n) + 1], "e", "-", "7">>
    [] v.t = "nan" -> <<"N", "a", "N">>
    [] v.t = "null" -> <<"n", "u", "l", "l">>
    [] OTHER -> <<"u", "n", "d", "e", "f", "i", "n", "e", "d">>

-----------------------------------------------------------------------------
(* isFloatOrInt, parseFloat, parseFloatOrText *)

\* /^-?\d*(\.\d+)?$/ on a sequence of characters
MatchesNumberPattern(s) ==
  LET r == IF Len(s) > 0 /\ s[1] = "-" THEN Tail(s) ELSE s
  IN \E k \in 0..Len(r) :
       /\ AllDigits(SubSeq(r, 1, k))
       /\ \/ k = Len(r)
          \/ /\ r[k + 1] = "."
             /\ Len(r) >= k + 2
             /\ AllDigits(SubSeq(r, k + 2, Len(r)))

isFloatOrInt(val) == MatchesNumberPattern(StringOf(val))

\* length of the longest prefix of s made of digits
RECURSIVE DigitRun(_)
DigitRun(s) ==
  IF s = <<>> \/ s[1] \notin Digit THEN 0 ELSE 1 + DigitRun(Tail(s))

\* the first three fractional digits as thousandths
FracValue(s) ==
  LET d(i) == IF i <= Len(s) THEN DigitVal(s[i]) ELSE 0
  IN 100 * d(1) + 10 * d(2) + d(3)

\* parseFloat(String(v)): the longest prefix that is a decimal literal
\* (sign, digits, optional fraction); exponents and leading blanks do not
\* occur in the strings of the model
parseFloat(v) ==
  IF v.t \in {"num", "exp"} THEN v
  ELSE IF v.t # "str" THEN NaN
  ELSE
    LET s == v.s
        neg == Len(s) > 0 /\ s[1] = "-"
        r == IF Len(s) > 0 /\ s[1] \in {"-", "+"} THEN Tail(s) ELSE s
        k == DigitRun(r)
        rest == SubSeq(r, k + 1, Len(r))
        f == IF Len(rest) > 0 /\ rest[1] = "." THEN DigitRun(Tail(rest)) ELSE 0
        int == CharsToNat(SubSeq(r, 1, k))
        frac == IF f > 0 THEN FracValue(SubSeq(rest, 2, f + 1)) ELSE 0
        mag == int * Scale + frac
    IN IF k = 0 /\ f = 0 THEN NaN
       ELSE Num(IF neg THEN -mag ELSE mag)

parseFloatOrText(v) ==
  LET int == parseFloat(v)
  IN IF int.t = "nan" THEN v ELSE int

-----------------------------------------------------------------------------
(* Dates: new Date(y, m, d).getTime(), Date.parse, parseDate, isDateString *)

\* days from 1970-01-01 to the first day of month m (1..12) of year y
DaysFromCivil(y, m) ==
  LET yy == IF m <= 2 THEN y - 1 ELSE y
      era == yy \div 400
      yoe == yy - era * 400
      mp == (m + 9) % 12
      doy == (153 * mp + 2) \div 5
      doe == yoe * 365 + yoe \div 4 - yoe \div 100 + doy
  IN era * 146097 + doe - 719468

\* new Date(year, monthIndex, day).getTime(): local midnight; a year of 0..99
\* means 1900 + year; a day past the end of the month runs into the next
NewDateLocal(year, monthIndex, day) ==
  LET y == IF year >= 0 /\ year <= 99 THEN 1900 + year ELSE year
  IN ((DaysFromCivil(y, monthIndex + 1) + day - 1) * 24 - TzHours) * Scale

\* the date-only forms of the ECMAScript date-time string format (YYYY,
\* YYYY-MM, YYYY-MM-DD), read as UTC; every other string of the model is
\* rejected (NaN) by the fallback parser as well
DateParse(s) ==
  LET isYear == Len(s) >= 4 /\ AllDigits(SubSeq(s, 1, 4))
      year == CharsToNat(SubSeq(s, 1, 4))
      hasMonth == Len(s) >= 7 /\ s[5] = "-" /\ AllDigits(SubSeq(s, 6, 7))
      month == CharsToNat(SubSeq(s, 6, 7))
      hasDay == Len(s) = 10 /\ s[8] = "-" /\ AllDigits(SubSeq(s, 9, 10))
      day == CharsToNat(SubSeq(s, 9, 10))
      utc(m, d) == Num((DaysFromCivil(year, m) + d - 1) * 24 * Scale)
  IN IF ~isYear THEN NaN
     ELSE IF Len(s) = 4 THEN utc(1, 1)
     ELSE IF ~hasMonth \/ month < 1 \/ month > 12 THEN NaN
     ELSE IF Len(s) = 7 THEN utc(month, 1)
     ELSE IF ~hasDay \/ day < 1 \/ day > 31 THEN NaN
     ELSE utc(month, day)

IsSep(ch) == ch \in {"-", "/"}

\* /^(\d{4})[-/](\d{1,2})$/
MatchesYearMonth(s) ==
  /\ Len(s) \in {6, 7}
  /\ AllDigits(SubSeq(s, 1, 4))
  /\ IsSep(s[5])
  /\ AllDigits(SubSeq(s, 6, Len(s)))

\* /^(\d{4})[-/](\d{1,2})[-/](\d{1,2})$/ with a month of ml digits
MatchesYearMonthDay(s, ml) ==
  /\ Len(s) \in {6 + ml + 1, 6 + ml + 2}
  /\ AllDigits(SubSeq(s, 1, 4))
  /\ IsSep(s[5])
  /\ AllDigits(SubSeq(s, 6, 5 + ml))
  /\ IsSep(s[6 + ml])
  /\ AllDigits(SubSeq(s, 7 + ml, Len(s)))

\* /^\d{4}[-/]\d{1,2}([-/]\d{1,2})?$/
MatchesDatePattern(s) ==
  MatchesYearMonth(s) \/ \E ml \in 1..2 : MatchesYearMonthDay(s, ml)

isDateString(v) ==
  IF Falsy(v) \/ ~IsString(v) THEN FALSE
  ELSE MatchesDatePattern(v.s) \/ DateParse(v.s).t # "nan"

parseDate(v) ==
  IF Falsy(v) THEN Null
  ELSE IF TypeofNumber(v) THEN v
  ELSE IF ~IsString(v) THEN Null
  ELSE
    LET s == v.s
        year == CharsToNat(SubSeq(s, 1, 4))
        ym == MatchesYearMonth(s)
        ymMonth == CharsToNat(SubSeq(s, 6, Len(s)))
        ml == IF MatchesYearMonthDay(s, 1) THEN 1 ELSE 2
        ymd == MatchesYearMonthDay(s, 1) \/ MatchesYearMonthDay(s, 2)
        month == CharsToNat(SubSeq(s, 6, 5 + ml))
        day == CharsToNat(SubSeq(s, 7 + ml, Len(s)))
        std == DateParse(s)
    IN IF ym /\ ymMonth >= 1 /\ ymMonth <= 12
         THEN Num(NewDateLocal(year, ymMonth - 1, 1))
       ELSE IF ymd /\ month >= 1 /\ month <= 12 /\ day >= 1 /\ day <= 31
         THEN Num(NewDateLocal(year, month - 1, day))
       ELSE IF std.t # "nan" THEN std
       ELSE Null

-----------------------------------------------------------------------------
(* String.prototype.localeCompare, toLowerCase, includes; compareValues *)

UpperChars ==
  <<"A", "B", "C", "D", "E", "F", "G", "H", "I", "J", "K", "L", "M",
    "N", "O", "P", "Q", "R", "S", "T", "U", "V", "W", "X", "Y", "Z">>
LowerChars ==
  <<"a", "b", "c", "d", "e", "f", "g", "h", "i", "j", "k", "l", "m",
    "n", "o", "p", "q", "r", "s", "t", "u", "v", "w", "x", "y", "z">>
IsUpper(ch) == \E i \in 1..26 : UpperChars[i] = ch
LowerChar(ch) ==
  IF IsUpper(ch) THEN LowerChars[CHOOSE i \in 1..26 : UpperChars[i] = ch] ELSE ch
toLowerCase(s) == [i \in 1..Len(s) |-> LowerChar(s[i])]

\* haystack.includes(needle)
includes(s, kw) ==
  \E i \in 1..(Len(s) - Len(kw) + 1) : SubSeq(s, i, i + Len(kw) - 1) = kw

\* primary order of the root collation: blank, punctuation, digits, letters
CollationOrder ==
  <<" ", "_", "-", ",", ";", ":", "!", "?", ".", "'", "(", ")", "@", "*", "/",
    "&", "#", "%", "+">> \o DigitChars \o LowerChars
CollationRank(ch) ==
  CHOOSE i \in 1..Len(CollationOrder) : CollationOrder[i] = LowerChar(ch)

\* first position at which key(s1[i]) and key(s2[i]) differ, 0 when none
RECURSIVE FirstDiff(_, _, _)
FirstDiff(s1, s2, i) ==
  IF i > Len(s1) \/ i > Len(s2) THEN 0
  ELSE IF CollationRank(s1[i]) # CollationRank(s2[i]) THEN i
  ELSE FirstDiff(s1, s2, i + 1)

RECURSIVE FirstCaseDiff(_, _, _)
FirstCaseDiff(s1, s2, i) ==
  IF i > Len(s1) THEN 0
  ELSE IF s1[i] # s2[i] THEN i
  ELSE FirstCaseDiff(s1, s2, i + 1)

\* s1.localeCompare(s2): primary weights first (a shorter prefix sorts
\* first), then lower case before upper case
localeCompare(s1, s2) ==
  LET i == FirstDiff(s1, s2, 1)
      j == FirstCaseDiff(s1, s2, 1)
  IN IF i > 0
       THEN (IF CollationRank(s1[i]) < CollationRank(s2[i]) THEN -1 ELSE 1)
     ELSE IF Len(s1) # Len(s2) THEN (IF Len(s1) < Len(s2) THEN -1 ELSE 1)
     ELSE IF j = 0 THEN 0
     ELSE IF IsUpper(s2[j]) THEN -1 ELSE 1

\* mutant of compareValues: a date on either side sorts first
compareValues_DateFirst(x, y) ==
  IF IsNullish(x) THEN (IF IsNullish(y) THEN 0 ELSE -1)
  ELSE IF IsNullish(y) THEN 1
  ELSE IF TypeofNumber(x) /\ TypeofNumber(y) THEN x.n - y.n
  ELSE
    LET aNum == parseFloat(x)
        bNum == parseFloat(y)
        aDate == parseDate(Str(StringOf(x)))
        bDate == parseDate(Str(StringOf(y)))
    IN IF aNum.t # "nan" /\ bNum.t # "nan" /\ isFloatOrInt(x) /\ isFloatOrInt(y)
         THEN aNum.n - bNum.n
       ELSE IF aDate # Null /\ bDate # Null THEN aDate.n - bDate.n
       ELSE IF aDate # Null THEN -1
       ELSE IF bDate # Null THEN -1
       ELSE localeCompare(StringOf(x), StringOf(y))

\* compareValues(a, b) of utils.js; the operands are never NaN
compareValues(x, y) ==
  IF IsNullish(x) THEN (IF IsNullish(y) THEN 0 ELSE -1)
  ELSE IF IsNullish(y) THEN 1
  ELSE IF TypeofNumber(x) /\ TypeofNumber(y) THEN x.n - y.n
  ELSE
    LET aNum == parseFloat(x)
        bNum == parseFloat(y)
        aDate == parseDate(Str(StringOf(x)))
        bDate == parseDate(Str(StringOf(y)))
    IN IF aNum.t # "nan" /\ bNum.t # "nan" /\ isFloatOrInt(x) /\ isFloatOrInt(y)
         THEN aNum.n - bNum.n
       ELSE IF aDate # Null /\ bDate # Null THEN aDate.n - bDate.n
       ELSE IF aDate # Null THEN -1
       ELSE IF bDate # Null THEN 1
       ELSE localeCompare(StringOf(x), StringOf(y))

-----------------------------------------------------------------------------
(* Sequence helpers: Array.prototype.filter / find / sort on short arrays *)

\* index of the first element satisfying P, 0 when there is none
FirstIndex(seq, P(_)) ==
  IF \E i \in 1..Len(seq) : P(seq[i])
    THEN CHOOSE i \in 1..Len(seq) : P(seq[i]) /\ \A j \in 1..(i - 1) : ~P(seq[j])
  ELSE 0

\* arr.sort(Cmp) for a consistent comparator: the sort is stable, so an
\* element's place is the number of elements that sort before it
StableSort(seq, Cmp(_, _)) ==
  LET before(i) ==
        Cardinality({j \in 1..Len(seq) :
                       \/ Cmp(seq[j], seq[i]) < 0
                       \/ Cmp(seq[j], seq[i]) = 0 /\ j < i})
  IN [k \in 1..Len(seq) |-> seq[CHOOSE i \in 1..Len(seq) : before(i) = k - 1]]

\* F(v), with v evaluated once
Bind(v, F(_)) == CHOOSE r \in {F(w) : w \in {v}} : TRUE

\* String.prototype.trim
IsBlank(ch) == ch = " "
RECURSIVE TrimLeft(_)
TrimLeft(s) == IF s # <<>> /\ IsBlank(s[1]) THEN TrimLeft(Tail(s)) ELSE s
RECURSIVE TrimRight(_)
TrimRight(s) ==
  IF s # <<>> /\ IsBlank(s[Len(s)]) THEN TrimRight(SubSeq(s, 1, Len(s) - 1)) ELSE s
trim(s) == TrimRight(TrimLeft(s))

-----------------------------------------------------------------------------
(* Field analysis: isTimeField, isValueField, analyzeField *)

timeKeywords ==
  {<<"y", "e", "a", "r">>,
   <<"m", "o", "n", "t", "h">>,
   <<"d", "a", "t", "e">>,
   <<"t", "i", "m", "e">>,
   <<"t", "i", "m", "e", "s", "t", "a", "m", "p">>,
   <<"d", "a", "y">>,
   <<"w", "e", "e", "k">>,
   <<"q", "u", "a", "r", "t", "e", "r">>,
   <<"p", "e", "r", "i", "o", "d">>,
   <<"d", "a", "t", "e", "t", "i", "m", "e">>,
   <<"c", "r", "e", "a", "t", "e", "d">>,
   <<"u", "p", "d", "a", "t", "e", "d">>,
   <<"w", "h", "e", "n">>}

valueKeywords ==
  {<<"v", "a", "l", "u", "e">>,
   <<"a", "m", "o", "u", "n", "t">>,
   <<"c", "o", "u", "n", "t">>,
   <<"t", "o", "t", "a", "l">>,
   <<"s", "u", "m">>,
   <<"n", "u", "m", "b", "e", "r">>,
   <<"q", "u", "a", "n", "t", "i", "t", "y">>,
   <<"p", "o", "p", "u", "l", "a", "t", "i", "o", "n">>,
   <<"e", "n", "e", "r", "g", "y">>,
   <<"p", "o", "w", "e", "r">>,
   <<"c", "o", "n", "s", "u", "m", "p", "t", "i", "o", "n">>,
   <<"p", "r", "o", "d", "u", "c", "t", "i", "o", "n">>,
   <<"r", "e", "v", "e", "n", "u", "e">>,
   <<"c", "o", "s", "t">>,
   <<"p", "r", "i", "c", "e">>,
   <<"r", "a", "t", "e">>,
   <<"p", "e", "r", "c", "e", "n", "t", "a", "g", "e">>,
   <<"p", "e", "r", "c", "e", "n", "t">>,
   <<"s", "c", "o", "r", "e">>,
   <<"r", "a", "t", "i", "n", "g">>,
   <<"i", "n", "d", "e", "x">>,
   <<"l", "e", "v", "e", "l">>,
   <<"v", "o", "l", "u", "m", "e">>,
   <<"c", "a", "p", "a", "c", "i", "t", "y">>}

isTimeField(fieldName) ==
  \E keyword \in timeKeywords : includes(toLowerCase(fieldName), keyword)

isValueField(fieldName) ==
  \E keyword \in valueKeywords : includes(toLowerCase(fieldName), keyword)

\* the field ids of the model
txtId == <<"_", "i", "d">>
idYear == <<"y", "e", "a", "r">>
idMonth == <<"m", "o", "n", "t", "h">>
idTown == <<"t", "o", "w", "n">>
idResalePrice == <<"r", "e", "s", "a", "l", "e", "_", "p", "r", "i", "c", "e">>
idDay == <<"d", "a", "y">>
idTownPadded == <<"t", "o", "w", "n", " ">>
LabelFieldIds == {idYear, idMonth, idTown, idResalePrice, txtId}
FieldIds == LabelFieldIds \cup {idDay, idTownPadded}


\* the name tests, evaluated once per field id of the model
TimeFieldIds == {id \in FieldIds : isTimeField(id)}
ValueFieldIds == {id \in FieldIds : isValueField(id)}

\* records.slice(0, Math.min(100, records.length))
SampleSize == 100

\* a record of the data: an object (key -> value) or null
Obj(f) == [null |-> FALSE, f |-> f]
NullRecord == [null |-> TRUE, f |-> <<>>]

\* record[key] of an object: undefined when it has no such key
Get(record, key) == IF key \in DOMAIN record.f THEN record.f[key] ELSE Undef

analyzeField(fieldName, recs) ==
  LET len == Min2(SampleSize, Len(recs))
      samples == [i \in 1..len |-> Get(recs[i], fieldName)]
      numericCount == Cardinality({i \in 1..len : isFloatOrInt(samples[i])})
      uniqueCount == Cardinality({samples[i] : i \in 1..len})
  IN [name |-> fieldName,
      isNumeric |-> 5 * numericCount > 4 * len,
      isTime |-> fieldName \in TimeFieldIds,
      isValue |-> fieldName \in ValueFieldIds,
      uniqueCount |-> uniqueCount,
      numericCount |-> numericCount,
      sampleLen |-> len]

-----------------------------------------------------------------------------
(* computeLabels: scores.  A score is kept as its numerator over the       *)
(* denominator records.length * samples.length.                            *)

kwYear == <<"y", "e", "a", "r">>
kwDate == <<"d", "a", "t", "e">>
kwTime == <<"t", "i", "m", "e">>
kwPeriod == <<"p", "e", "r", "i", "o", "d">>
kwMonth == <<"m", "o", "n", "t", "h">>
kwDay == <<"d", "a", "y">>
yKeywords ==
  {<<"v", "a", "l", "u", "e">>, <<"a", "m", "o", "u", "n", "t">>, <<"c", "o", "u", "n", "t">>,
   <<"t", "o", "t", "a", "l">>, <<"n", "u", "m", "b", "e", "r">>, <<"q", "u", "a", "n", "t", "i", "t", "y">>}

Bonus(cond, points) == IF cond THEN points ELSE 0

\* the part of the X score that depends on the name only
xNameScore(name) ==
  LET lowerName == toLowerCase(name)
  IN Bonus(includes(lowerName, kwYear) \/ includes(lowerName, kwDate), 40)
   + Bonus(includes(lowerName, kwTime) \/ includes(lowerName, kwPeriod), 30)
   + Bonus(includes(lowerName, kwMonth) \/ includes(lowerName, kwDay), 25)

\* the part of the Y score that depends on the name only
yNameScore(name) ==
  Bonus(\E k \in yKeywords : includes(toLowerCase(name), k), 30)

xNameScores == [id \in FieldIds |-> xNameScore(id)]
yNameScores == [id \in FieldIds |-> yNameScore(id)]

xScore(f, recs) ==
  LET L == Len(recs)
      D == L * f.sampleLen
  IN D * ( Bonus(f.isTime, 150)
         + xNameScores[f.name]
         + Bonus(f.isNumeric /\ 2 * f.uniqueCount > L, 15)
         - Bonus(f.isValue, 80)
         + Bonus(~f.isNumeric /\ f.uniqueCount > 1, 20) )
     + f.sampleLen * Min2(f.uniqueCount * 60, L * 60)

yScore(f, recs) ==
  LET L == Len(recs)
      D == L * f.sampleLen
  IN D * ( Bonus(f.isValue, 150)
         + Bonus(f.isNumeric, 80)
         - Bonus(f.isTime, 100)
         + Bonus(f.uniqueCount > 1 /\ 10 * f.uniqueCount < 7 * L, 15)
         - Bonus(10 * f.uniqueCount > 9 * L, 30)
         + yNameScores[f.name] )
     + L * f.numericCount * 40

\* fields.filter(f => f && f.id && records[0] && records[0][f.id] !== undefined)
\*       .map(f => analyzeField(f, records)), with both scores attached
fieldAnalyses(flds, recs) ==
  LET usable == SelectSeq(flds, LAMBDA id :
                  /\ id # <<>>
                  /\ ~recs[1].null
                  /\ Get(recs[1], id) # Undef)
  IN [i \in 1..Len(usable) |->
        LET f == analyzeField(usable[i], recs)
        IN [name |-> f.name, isNumeric |-> f.isNumeric, isTime |-> f.isTime,
            isValue |-> f.isValue, uniqueCount |-> f.uniqueCount,
            numericCount |-> f.numericCount, sampleLen |-> f.sampleLen,
            xScore |-> xScore(f, recs), yScore |-> yScore(f, recs)]]

-----------------------------------------------------------------------------
(* computeLabels: the choice of X, Y and the series *)

NameOf(f) == Str(f.name)
\* fieldAnalyses[i]?.name (i counted from 1)
NameAt(fa, i) == IF i \in 1..Len(fa) THEN NameOf(fa[i]) ELSE Undef
\* v || w
OrElse(v, w) == IF Falsy(v) THEN w ELSE v
BoolNum(p) == IF p THEN 1 ELSE 0

\* fieldAnalyses.find(f => f.name !== temp_x)?.name
DifferentField(fa, x) ==
  NameAt(fa, FirstIndex(fa, LAMBDA f : NameOf(f) # x))

\* const differentField = ...; if (differentField) temp_y = differentField.name
SetIfDifferent(fa, x, y) ==
  IF DifferentField(fa, x) # Undef THEN DifferentField(fa, x) ELSE y

\* ChooseX taking the last of the fields with the highest X score
ChooseX_LastWins(fa) ==
  IF Len(fa) = 0 THEN Undef
  ELSE NameOf(fa[CHOOSE i \in 1..Len(fa) :
                   \A j \in 1..Len(fa) :
                     /\ fa[j].xScore <= fa[i].xScore
                     /\ j > i => fa[j].xScore < fa[i].xScore])

\* Step 1: sortedByX[0]?.name
ChooseX(fa) ==
  IF Len(fa) = 0 THEN Undef
  ELSE NameOf(StableSort(fa, LAMBDA p, q : q.xScore - p.xScore)[1])

\* f.name === temp_x || String(f.name).trim() === String(temp_x).trim()
nameMatches(v, x) == v = x \/ trim(StringOf(v)) = trim(StringOf(x))

\* Step 2, lines 1081-1104: the candidates for Y, best first
SortedByY(fa, x) ==
  LET xField == fa[FirstIndex(fa, LAMBDA f : NameOf(f) = x)]
      kept == SelectSeq(fa, LAMBDA f :
                /\ ~nameMatches(NameOf(f), x)
                /\ ~(xField.isTime /\ f.isTime))
  IN StableSort(kept, LAMBDA p, q :
       IF xField.isTime /\ p.isTime # q.isTime
         THEN (IF p.isTime THEN 1 ELSE -1)
       ELSE q.yScore - p.yScore)

\* lines 1108-1124: Y is the best candidate
BestCandidateY(fa, x) ==
  LET sortedByY == SortedByY(fa, x)
      first == NameOf(sortedByY[1])
      nextField == IF Len(sortedByY) > 1 THEN NameOf(sortedByY[2]) ELSE Null
  IN IF ~nameMatches(first, x) THEN first
     ELSE IF ~Falsy(nextField) /\ nextField # x THEN nextField
     ELSE IF DifferentField(fa, x) # Undef THEN DifferentField(fa, x)
     ELSE OrElse(NameAt(fa, 2), NameAt(fa, 1))

\* lines 1126-1166: no candidate is left for Y
FallbackY(fa, x) ==
  LET xField == fa[FirstIndex(fa, LAMBDA f : NameOf(f) = x)]
      otherFields == SelectSeq(fa, LAMBDA f :
                       NameOf(f) # x /\ ~(xField.isTime /\ f.isTime))
      numericNonTime == SelectSeq(otherFields, LAMBDA f : f.isNumeric /\ ~f.isTime)
      numericOther == SelectSeq(otherFields, LAMBDA f : f.isNumeric)
      y == IF Len(otherFields) > 0
             THEN (IF Len(numericNonTime) > 0 THEN NameOf(numericNonTime[1])
                   ELSE IF Len(numericOther) > 0 THEN NameOf(numericOther[1])
                   ELSE NameOf(otherFields[1]))
           ELSE IF DifferentField(fa, x) # Undef THEN DifferentField(fa, x)
           ELSE OrElse(NameAt(fa, 2), NameAt(fa, 1))
  IN IF y = x /\ Len(fa) >= 2 THEN SetIfDifferent(fa, x, y) ELSE y

\* lines 1169-1178: force the first two fields
ForceFirstTwo(fa, xy) ==
  IF xy.x = xy.y /\ Len(fa) >= 2
    THEN [x |-> NameOf(fa[1]), y |-> NameOf(fa[2])]
  ELSE xy

\* lines 1180-1207
ImmediateValidation(fa, xy) ==
  IF ~(xy.x = xy.y /\ Len(fa) >= 2) THEN xy
  ELSE
    LET xFieldInfo == fa[FirstIndex(fa, LAMBDA f : NameOf(f) = xy.x)]
        alternatives == SelectSeq(fa, LAMBDA f : NameOf(f) # xy.x)
        nonTimeNumeric == SelectSeq(alternatives, LAMBDA f : ~f.isTime /\ f.isNumeric)
        timeFields == SelectSeq(alternatives, LAMBDA f : f.isTime)
        newX == NameOf(timeFields[1])
        yAlternatives == SelectSeq(fa, LAMBDA f : NameOf(f) # newX)
    IN IF Len(alternatives) = 0 THEN xy
       ELSE IF xFieldInfo.isTime
         THEN [xy EXCEPT !.y = IF Len(nonTimeNumeric) > 0
                                 THEN NameOf(nonTimeNumeric[1])
                               ELSE NameOf(alternatives[1])]
       ELSE IF Len(timeFields) > 0
         THEN [x |-> newX,
               y |-> IF Len(yAlternatives) > 0 THEN NameOf(yAlternatives[1])
                     ELSE NameOf(alternatives[1])]
       ELSE [xy EXCEPT !.y = NameOf(alternatives[1])]

\* Step 2, lines 1069-1208
ChooseY(fa, x) ==
  IF Len(fa) < 2 THEN [x |-> x, y |-> OrElse(NameAt(fa, 1), x)]
  ELSE
    LET y == IF Len(SortedByY(fa, x)) > 0 THEN BestCandidateY(fa, x)
             ELSE FallbackY(fa, x)
    IN ImmediateValidation(fa, ForceFirstTwo(fa, [x |-> x, y |-> y]))

\* lines 1210-1270: the safety check before the series is chosen
FinalSafetyCheck(fa, xy) ==
  IF ~(xy.x = xy.y /\ Len(fa) >= 2) THEN xy
  ELSE
    LET xField == fa[FirstIndex(fa, LAMBDA f : NameOf(f) = xy.x)]
        yCandidates ==
          StableSort(SelectSeq(fa, LAMBDA f :
                       NameOf(f) # xy.x /\ f.isNumeric /\ ~f.isTime),
                     LAMBDA p, q :
                       IF p.isValue # q.isValue
                         THEN BoolNum(q.isValue) - BoolNum(p.isValue)
                       ELSE q.numericCount - p.numericCount)
        timeCandidates ==
          StableSort(SelectSeq(fa, LAMBDA f : NameOf(f) # xy.x /\ f.isTime),
                     LAMBDA p, q : q.uniqueCount - p.uniqueCount)
        timeFields == SelectSeq(fa, LAMBDA f : f.isTime /\ NameOf(f) # xy.x)
        valueFields == SelectSeq(fa, LAMBDA f : f.isValue /\ NameOf(f) # xy.x)
    IN IF xField.isTime
         THEN [xy EXCEPT !.y = IF Len(yCandidates) > 0 THEN NameOf(yCandidates[1])
                               ELSE SetIfDifferent(fa, xy.x, xy.y)]
       ELSE IF xField.isValue
         THEN (IF Len(timeCandidates) > 0
                 THEN [x |-> NameOf(timeCandidates[1]), y |-> NameOf(xField)]
               ELSE [xy EXCEPT !.y = SetIfDifferent(fa, xy.x, xy.y)])
       ELSE IF Len(timeFields) > 0
         THEN LET newX == NameOf(timeFields[1])
              IN [x |-> newX,
                  y |-> IF newX = xy.y THEN SetIfDifferent(fa, newX, xy.y)
                        ELSE xy.y]
       ELSE IF Len(valueFields) > 0
         THEN [xy EXCEPT !.y = NameOf(valueFields[1])]
       ELSE [x |-> NameOf(fa[1]),
             y |-> IF Len(fa) > 1 THEN NameOf(fa[2]) ELSE NameOf(fa[1])]

\* mutant of ChooseSeries: the "_id" column is not excluded
ChooseSeries_KeepsId(fa, recs, xy) ==
  LET L == Len(recs)
      candidateSeries == SelectSeq(fa, LAMBDA f :
        /\ NameOf(f) # xy.x
        /\ NameOf(f) # xy.y
        /\ f.uniqueCount > 1
        /\ f.uniqueCount < 50 /\ 2 * f.uniqueCount < L
        /\ 10 * f.uniqueCount < 9 * L)
  IN IF Len(fa) <= 2 \/ Len(candidateSeries) = 0 THEN Null
     ELSE NameOf(candidateSeries[1])

\* mutant of ChooseSeries: no test of the number of fields, and the Y field
\* stays a candidate
ChooseSeries_KeepsY(fa, recs, xy) ==
  LET L == Len(recs)
      candidateSeries == SelectSeq(fa, LAMBDA f :
        /\ NameOf(f) # xy.x
        /\ f.name # txtId
        /\ f.uniqueCount > 1
        /\ f.uniqueCount < 50 /\ 2 * f.uniqueCount < L
        /\ 10 * f.uniqueCount < 9 * L)
  IN IF Len(candidateSeries) = 0 THEN Null ELSE NameOf(candidateSeries[1])

\* mutant of ChooseSeries: the first candidate, whatever its unique count
ChooseSeries_FirstCandidate(fa, recs, xy) ==
  IF Len(fa) <= 2 THEN Null
  ELSE
    LET L == Len(recs)
        candidateSeries == SelectSeq(fa, LAMBDA f :
          /\ NameOf(f) # xy.x
          /\ NameOf(f) # xy.y
          /\ f.name # txtId
          /\ f.uniqueCount > 1
          /\ f.uniqueCount < 50 /\ 2 * f.uniqueCount < L
          /\ 10 * f.uniqueCount < 9 * L)
    IN IF Len(candidateSeries) = 0 THEN Null ELSE NameOf(candidateSeries[1])

\* Step 3, lines 1273-1306 (|u - 7.5| is compared as |2u - 15|)
ChooseSeries(fa, recs, xy) ==
  IF Len(fa) <= 2 THEN Null
  ELSE
    LET L == Len(recs)
        candidateSeries == SelectSeq(fa, LAMBDA f :
          /\ NameOf(f) # xy.x
          /\ NameOf(f) # xy.y
          /\ f.name # txtId
          /\ f.uniqueCount > 1
          /\ f.uniqueCount < 50 /\ 2 * f.uniqueCount < L
          /\ 10 * f.uniqueCount < 9 * L)
        idealSeries == SelectSeq(candidateSeries, LAMBDA f :
                         f.uniqueCount >= 2 /\ f.uniqueCount <= 20)
    IN IF Len(candidateSeries) = 0 THEN Null
       ELSE IF Len(idealSeries) > 0
         THEN NameOf(StableSort(idealSeries, LAMBDA p, q :
                       Abs(2 * p.uniqueCount - 15) - Abs(2 * q.uniqueCount - 15))[1])
       ELSE NameOf(candidateSeries[1])

\* lines 1322-1331: the first field that differs from X becomes Y
SwapWithNext(fa, xy) ==
  IF xy.x = xy.y /\ Len(fa) >= 2
    THEN [xy EXCEPT !.y = SetIfDifferent(fa, xy.x, xy.y)]
  ELSE xy

\* lines 1333-1358
AbsoluteFinalCheck(fa, xy) ==
  IF ~(xy.x = xy.y /\ Len(fa) >= 2) THEN xy
  ELSE
    LET firstField == NameOf(fa[1])
        secondField == NameOf(fa[2])
        i == FirstIndex(Tail(fa), LAMBDA f : NameOf(f) # firstField)
    IN IF ~Falsy(secondField) /\ secondField # firstField
         THEN [x |-> firstField, y |-> secondField]
       ELSE IF i > 0 THEN [x |-> firstField, y |-> NameOf(Tail(fa)[i])]
       ELSE xy

\* lines 1308-1386: the passes that run after the series was chosen
LatePasses(fa, xy) ==
  ForceFirstTwo(fa,
    ForceFirstTwo(fa,
      AbsoluteFinalCheck(fa,
        SwapWithNext(fa,
          ForceFirstTwo(fa, xy)))))

\* mutant of computeLabels: Y is the best Y score among all fields, X
\* included, and nothing repairs an equal pair
computeLabels_SameAxis(flds, recs) ==
  LET fa == fieldAnalyses(flds, recs)
      x == ChooseX(fa)
      y == IF Len(fa) = 0 THEN Undef
           ELSE NameOf(StableSort(fa, LAMBDA p, q : q.yScore - p.yScore)[1])
  IN [x |-> x, y |-> y, series |-> ChooseSeries(fa, recs, [x |-> x, y |-> y])]

\* computeLabels(fields, records) for non-empty fields and records:
\* [temp_x, temp_y, temp_series]
computeLabels(flds, recs) ==
  LET fa == fieldAnalyses(flds, recs)
      xy == FinalSafetyCheck(fa, ChooseY(fa, ChooseX(fa)))
      temp_series == ChooseSeries(fa, recs, xy)
      late == LatePasses(fa, xy)
  IN [x |-> late.x, y |-> late.y, series |-> temp_series]

\* an array argument, and Array.isArray
Arr(items) == [t |-> "array", n |-> 0, s |-> items]
IsArray(v) == v.t = "array"

txtFieldsInvalid == "Fields array is empty or invalid"
txtRecordsInvalid == "Records array is empty or invalid"

\* validateInputs without the length tests
validateInputs_NoLength(flds, recs) ==
  IF Falsy(flds) \/ ~IsArray(flds) THEN txtFieldsInvalid
  ELSE IF Falsy(recs) \/ ~IsArray(recs) THEN txtRecordsInvalid
  ELSE ""

\* lines 988-996: the message of the error that computeLabels throws for its
\* arguments, "" when it throws none
validateInputs(flds, recs) ==
  IF Falsy(flds) \/ ~IsArray(flds) \/ Len(flds.s) = 0 THEN txtFieldsInvalid
  ELSE IF Falsy(recs) \/ ~IsArray(recs) \/ Len(recs.s) = 0 THEN txtRecordsInvalid
  ELSE ""

-----------------------------------------------------------------------------
(* shouldUseBarChart, shouldSumData *)

\* the values of a column that are neither null nor undefined
PresentValues(recs, key) ==
  SelectSeq([i \in 1..Len(recs) |-> Get(recs[i], StringOf(key))],
            LAMBDA v : ~IsNullish(v))

shouldUseBarChart(recs, x, flds) ==
  IF Len(recs) = 0 \/ Falsy(x) THEN FALSE
  ELSE
    LET xField == FirstIndex(flds, LAMBDA id : Str(id) = x)
        xValues == PresentValues(recs, x)
        totalCount == Len(xValues)
        uniqueCount == Cardinality({xValues[i] : i \in 1..totalCount})
        numericCount == Cardinality({i \in 1..totalCount : isFloatOrInt(xValues[i])})
        isNumeric == 5 * numericCount > 4 * totalCount
    IN IF totalCount = 0 THEN FALSE
       ELSE IF xField > 0 /\ isTimeField(flds[xField]) THEN FALSE
       ELSE ~isNumeric \/ (uniqueCount < 20 /\ 2 * uniqueCount < totalCount)

\* mutant of shouldSumData: one numeric Y value in a group is enough
shouldSumData_OneNumeric(recs, x, y) ==
  IF Len(recs) = 0 \/ Falsy(x) \/ Falsy(y) THEN FALSE
  ELSE
    LET xValue == [i \in 1..Len(recs) |-> Get(recs[i], StringOf(x))]
        key == [i \in 1..Len(recs) |-> StringOf(xValue[i])]
        numericY == {i \in 1..Len(recs) : isFloatOrInt(Get(recs[i], StringOf(y)))}
        group(i) == {j \in 1..Len(recs) : ~IsNullish(xValue[j]) /\ key[j] = key[i]}
    IN \E i \in 1..Len(recs) :
         /\ ~IsNullish(xValue[i])
         /\ Cardinality(group(i)) > 1
         /\ Cardinality(group(i) \cap numericY) >= 1

\* grouped[xValue]: the records whose X value has the same property key
shouldSumData(recs, x, y) ==
  IF Len(recs) = 0 \/ Falsy(x) \/ Falsy(y) THEN FALSE
  ELSE
    LET xValue == [i \in 1..Len(recs) |-> Get(recs[i], StringOf(x))]
        key == [i \in 1..Len(recs) |-> StringOf(xValue[i])]
        numericY == {i \in 1..Len(recs) : isFloatOrInt(Get(recs[i], StringOf(y)))}
        group(i) == {j \in 1..Len(recs) : ~IsNullish(xValue[j]) /\ key[j] = key[i]}
    IN \E i \in 1..Len(recs) :
         /\ ~IsNullish(xValue[i])
         /\ Cardinality(group(i)) > 1
         /\ Cardinality(group(i) \cap numericY) > 1

-----------------------------------------------------------------------------
(* The reshaper: processedDataset of GovDataChart                           *)

txtDefault == <<"d", "e", "f", "a", "u", "l", "t">>
txtAllData == <<"A", "l", "l", " ", "D", "a", "t", "a">>

\* number + number
NAdd(u, v) == IF u.t = "nan" \/ v.t = "nan" THEN NaN ELSE Num(u.n + v.n)

\* { ...record, [key]: v }
SetField(record, key, v) ==
  Obj([k \in (DOMAIN record.f) \cup {key} |-> IF k = key THEN v ELSE record.f[k]])

\* { [xk]: xv, [yk]: yv }
Point(xk, yk, xv, yv) == Obj([k \in {xk, yk} |-> IF k = yk THEN yv ELSE xv])

txt13 == <<"1", "3">>
txt1991 == <<"1", "9", "9", "1">>
txt2000 == <<"2", "0", "0", "0">>
txtDash == <<"-">>
txtYearMonth == <<"1", "9", "9", "1", "-", "1", "0">>
txtYearMonthDay == <<"1", "9", "9", "1", "-", "1", "0", "-", "0", "1">>
txtSlashDate == <<"2", "0", "0", "0", "/", "1", "/", "2">>
txtBadMonth == <<"1", "9", "9", "1", "-", "1", "3">>
txtAbc == <<"a", "b", "c">>
txt12a == <<"1", "2", "a">>

\* the X values of the generated records, and the timestamps they are
\* rewritten to
XValues ==
  {Str(txtYearMonth), Str(txtYearMonthDay), Str(txtBadMonth), Str(txtAbc),
   Str(txt13), Str(<<>>), Num(1991 * Scale)}

XTimestamps == {parseDate(Str(StringOf(v))) : v \in XValues} \ {Null}
ComparedValues == XValues \cup XTimestamps

\* compareValues on these values, computed once
ComparedTable ==
  [u \in ComparedValues |-> [v \in ComparedValues |-> compareValues(u, v)]]

\* (a, b) => compareValues(a[xKey], b[xKey])
CompareByX(p, q, x) ==
  LET u == Get(p, x.s)
      v == Get(q, x.s)
  IN IF u \in ComparedValues /\ v \in ComparedValues THEN ComparedTable[u][v]
     ELSE compareValues(u, v)

\* arr.sort(Cmp): the stable sorted order when the comparator is consistent
\* on the elements (m[i][j] <= 0 and m[j][k] <= 0 give m[i][k] <= 0);
\* otherwise the order is implementation-defined, and any arrangement of the
\* elements is a possible outcome
SortOutcomes(seq, Cmp(_, _)) ==
  LET n == Len(seq)
      before(m, i) ==
        Cardinality({j \in 1..n : m[j][i] < 0 \/ (m[j][i] = 0 /\ j < i)})
  IN UNION {
       IF \A i, j, k \in 1..n : m[i][j] <= 0 /\ m[j][k] <= 0 => m[i][k] <= 0
         THEN {[k \in 1..n |-> seq[CHOOSE i \in 1..n : before(m, i) = k - 1]]}
       ELSE {[i \in 1..n |-> seq[p[i]]] : p \in Permutations(1..n)} :
       m \in {[i \in 1..n |-> [j \in 1..n |-> Cmp(seq[i], seq[j])]]}}

\* lines 819-820: sampleXValue && isDateString(String(sampleXValue))
XKeyIsDate(recs, x) ==
  LET sampleXValue == IF Len(recs) = 0 THEN Undef ELSE Get(recs[1], x.s)
  IN ~Falsy(sampleXValue) /\ isDateString(Str(StringOf(sampleXValue)))

\* lines 832-843: the record with its X value replaced by its timestamp
WithTimestamp(record, x) ==
  LET xTimestamp == parseDate(Str(StringOf(Get(record, x.s))))
  IN IF xTimestamp # Null THEN SetField(record, x.s, xTimestamp) ELSE record

\* lines 831-845
RewriteDates(recs, x, xKeyIsDate) ==
  IF xKeyIsDate THEN [i \in 1..Len(recs) |-> WithTimestamp(recs[i], x)] ELSE recs

\* lines 857-866 and 878-886: the record with a numeric Y value
WithNumericY(record, y) ==
  LET yValue == Get(record, y.s)
  IN SetField(record, y.s,
              IF TypeofNumber(yValue) THEN yValue ELSE parseFloatOrText(yValue))

\* series && series.trim() !== ""
HasSeries(ser) == ~Falsy(ser) /\ trim(ser.s) # <<>>

\* the key under which _.groupBy(records, series) files a record
GroupKey(item, ser) == StringOf(Get(item, ser.s))

\* lines 851-873: the possible results of the grouping without sums
GroupedDatasets(recs, x, y, ser) ==
  LET keys == {GroupKey(recs[i], ser) : i \in 1..Len(recs)}
      group(key) == SelectSeq(recs, LAMBDA item : GroupKey(item, ser) = key)
      numeric(g) == [i \in 1..Len(g) |-> WithNumericY(g[i], y)]
  IN UNION {
       {[key \in keys |-> numeric(g[key])] :
          g \in {h \in [keys -> UNION {sorts[key] : key \in keys}] :
                   \A key \in keys : h[key] \in sorts[key]}} :
       sorts \in {[key \in keys |->
                     SortOutcomes(group(key), LAMBDA p, q : CompareByX(p, q, x))]}}

\* lines 875-887
SingleSeries(recs, y) ==
  [key \in {txtAllData} |-> [i \in 1..Len(recs) |-> WithNumericY(recs[i], y)]]

\* lines 894, 901-907: item[seriesKey] || "default", as a string
SeriesIdOf(item, ser) ==
  LET seriesKey == IF HasSeries(ser) THEN ser.s ELSE txtDefault
      seriesID == Get(item, seriesKey)
  IN IF Falsy(seriesID) THEN txtDefault ELSE StringOf(seriesID)

\* mutant of Accumulate: a repeated X value takes the last Y value
Accumulate_Overwrite(xMap, item, x, y) ==
  LET xValue == Get(item, x.s)
      yValue == parseFloatOrText(Get(item, y.s))
      k == FirstIndex(xMap, LAMBDA e : e.x = xValue)
  IN IF k = 0 THEN Append(xMap, [x |-> xValue, y |-> yValue])
     ELSE IF TypeofNumber(yValue) THEN [xMap EXCEPT ![k].y = yValue]
     ELSE xMap

\* mutant of Accumulate: a number does not replace a value that is no number
Accumulate_KeepsPlaceholder(xMap, item, x, y) ==
  LET xValue == Get(item, x.s)
      yValue == parseFloatOrText(Get(item, y.s))
      k == FirstIndex(xMap, LAMBDA e : e.x = xValue)
  IN IF k = 0 THEN Append(xMap, [x |-> xValue, y |-> yValue])
     ELSE IF TypeofNumber(yValue) /\ TypeofNumber(xMap[k].y)
       THEN [xMap EXCEPT ![k].y = NAdd(xMap[k].y, yValue)]
     ELSE xMap

\* lines 909-934: one record added to the map xValue -> yValue of its series;
\* the map is the sequence of its entries in insertion order
Accumulate(xMap, item, x, y) ==
  LET xValue == Get(item, x.s)
      yValue == parseFloatOrText(Get(item, y.s))
      k == FirstIndex(xMap, LAMBDA e : e.x = xValue)
  IN IF k = 0 THEN Append(xMap, [x |-> xValue, y |-> yValue])
     ELSE IF TypeofNumber(yValue) /\ TypeofNumber(xMap[k].y)
       THEN [xMap EXCEPT ![k].y = NAdd(xMap[k].y, yValue)]
     ELSE IF TypeofNumber(yValue) THEN [xMap EXCEPT ![k].y = yValue]
     ELSE xMap

\* lines 899-935: the map of one series after the first n records
RECURSIVE SeriesMap(_, _, _, _, _, _)
SeriesMap(recs, n, x, y, ser, id) ==
  IF n = 0 THEN <<>>
  ELSE
    Bind(SeriesMap(recs, n - 1, x, y, ser, id),
         LAMBDA xMap : IF SeriesIdOf(recs[n], ser) = id
                         THEN Accumulate(xMap, recs[n], x, y)
                       ELSE xMap)

\* lines 941-949
Entries(xMap, x, y) ==
  [k \in 1..Len(xMap) |->
     Point(x.s, y.s, xMap[k].x,
           IF TypeofNumber(xMap[k].y) THEN xMap[k].y ELSE parseFloatOrText(xMap[k].y))]

\* lines 893-961: the possible results of the summing path
SummedDatasets(recs, x, y, ser) ==
  LET ids == {SeriesIdOf(recs[i], ser) : i \in 1..Len(recs)}
      entries(id) == Entries(SeriesMap(recs, Len(recs), x, y, ser, id), x, y)
  IN UNION {
       {d \in [ids -> UNION {sorts[id] : id \in ids}] :
          \A id \in ids : d[id] \in sorts[id]} :
       sorts \in {[id \in ids |->
                     SortOutcomes(entries(id), LAMBDA p, q : CompareByX(p, q, x))]}}

\* lines 847-961 on the sorted records
Reshaped(recs, x, y, ser, sum) ==
  IF ~sum
    THEN IF HasSeries(ser) THEN GroupedDatasets(recs, x, y, ser)
         ELSE {SingleSeries(recs, y)}
  ELSE SummedDatasets(recs, x, y, ser)

\* the values processedDataset can take: a mapping from series id to points
processedDataset(recs, x, y, ser, sum) ==
  IF Falsy(x) \/ Falsy(y) THEN {<<>>}
  ELSE
    LET xKeyIsDate == XKeyIsDate(recs, x)
    IN UNION {Reshaped(rewritten, x, y, ser, sum) :
                rewritten \in
                  {RewriteDates(sorted, x, xKeyIsDate) :
                     sorted \in SortOutcomes(recs, LAMBDA p, q : CompareByX(p, q, x))}}

-----------------------------------------------------------------------------
(* calculateDomain                                                          *)

txtAuto == <<"a", "u", "t", "o">>
Auto == Str(txtAuto)

\* arithmetic and comparisons of numbers; NaN propagates and compares false
NSub(u, v) == IF u.t = "nan" \/ v.t = "nan" THEN NaN ELSE Num(u.n - v.n)
\* u * p / q for the decimal factor p / q
NTimes(u, p, q) == IF u.t = "nan" THEN NaN ELSE Num((u.n * p) \div q)
NAbs(u) == IF u.t = "nan" THEN NaN ELSE Num(Abs(u.n))
NLess(u, v) == u.t = "num" /\ v.t = "num" /\ u.n < v.n
\* u === v for numbers
NSame(u, v) == u.t = "num" /\ v.t = "num" /\ u.n = v.n
\* Math.min / Math.max of a non-empty set of numbers
MathMin(S) ==
  IF \E v \in S : v.t = "nan" THEN NaN
  ELSE CHOOSE v \in S : \A w \in S : v.n <= w.n
MathMax(S) ==
  IF \E v \in S : v.t = "nan" THEN NaN
  ELSE CHOOSE v \in S : \A w \in S : v.n >= w.n

Zero == Num(0)
One == Num(Scale)

\* lines 1597-1609: the positions <<series, index>> of the points
PointsOf(ds) ==
  UNION {{<<id, i>> : i \in 1..Len(ds[id])} : id \in DOMAIN ds}

\* XDomain with the padding left out
XDomain_NoPadding(allXValues) ==
  LET numericX == {v \in allXValues : TypeofNumber(v) \/ isFloatOrInt(v)}
      dateSource == IF numericX # allXValues THEN allXValues ELSE numericX
      asDate(v) == IF TypeofNumber(v) THEN v
                   ELSE IF numericX # allXValues THEN parseDate(Str(StringOf(v)))
                   ELSE parseFloat(v)
      allDates == \A v \in dateSource : asDate(v) # Null
      dateX == {asDate(v) : v \in dateSource}
      plainX == {parseFloat(v) : v \in {w \in allXValues : isFloatOrInt(w)}}
      values == IF allDates THEN dateX ELSE plainX
      xMinVal == MathMin(values)
      xMaxVal == MathMax(values)
      xRange == NSub(xMaxVal, xMinVal)
  IN IF allXValues = {} \/ values = {} \/ NSame(xRange, Zero)
       THEN [xMin |-> Auto, xMax |-> Auto]
     ELSE [xMin |-> xMinVal, xMax |-> xMaxVal]

\* lines 1614-1665 on the X values that are neither null nor undefined
XDomain(allXValues) ==
  LET numericX == {v \in allXValues : TypeofNumber(v) \/ isFloatOrInt(v)}
      dateSource == IF numericX # allXValues THEN allXValues ELSE numericX
      asDate(v) == IF TypeofNumber(v) THEN v
                   ELSE IF numericX # allXValues THEN parseDate(Str(StringOf(v)))
                   ELSE parseFloat(v)
      allDates == \A v \in dateSource : asDate(v) # Null
      dateX == {asDate(v) : v \in dateSource}
      plainX == {parseFloat(v) : v \in {w \in allXValues : isFloatOrInt(w)}}
      values == IF allDates THEN dateX ELSE plainX
      xMinVal == MathMin(values)
      xMaxVal == MathMax(values)
      xRange == NSub(xMaxVal, xMinVal)
      xPadding == NTimes(xRange, 1, 20)
  IN IF allXValues = {} \/ values = {} \/ NSame(xRange, Zero)
       THEN [xMin |-> Auto, xMax |-> Auto]
     ELSE [xMin |-> NSub(xMinVal, xPadding), xMax |-> NAdd(xMaxVal, xPadding)]

\* lines 1670-1730 on the Y values that are neither null nor undefined
YDomain(allYValues) ==
  LET numericY == {parseFloat(v) : v \in {w \in allYValues : isFloatOrInt(w)}}
      yMinVal == MathMin(numericY)
      yMaxVal == MathMax(numericY)
      yRange == NSub(yMaxVal, yMinVal)
      padding == NTimes(NAbs(yMinVal), 1, 5)
      tenth == NTimes(yRange, 1, 10)
      small == IF NLess(yRange, One)
                 THEN MathMax({NTimes(yRange, 1, 5), Num(Scale \div 10)})
               ELSE tenth
      yPadding == IF NLess(Num(1000 * Scale), yRange) THEN NTimes(yRange, 1, 20)
                  ELSE small
      maxAbs == MathMax({NAbs(yMinVal), NAbs(yMaxVal)})
  IN IF numericY = {} THEN [yMin |-> Auto, yMax |-> Auto]
     ELSE IF NSame(yRange, Zero)
       THEN IF NSame(yMinVal, Zero) THEN [yMin |-> Zero, yMax |-> One]
            ELSE [yMin |-> NSub(yMinVal, padding), yMax |-> NAdd(yMaxVal, padding)]
     ELSE IF NLess(yMinVal, Zero) /\ NLess(Zero, yMaxVal)
       THEN [yMin |-> NTimes(maxAbs, -11, 10), yMax |-> NTimes(maxAbs, 11, 10)]
     ELSE IF yMinVal.t = "num" /\ yMinVal.n >= 0
       THEN [yMin |-> IF NLess(yMinVal, tenth) THEN Zero
                      ELSE MathMax({Zero, NSub(yMinVal, yPadding)}),
             yMax |-> NAdd(yMaxVal, yPadding)]
     ELSE [yMin |-> NSub(yMinVal, yPadding),
           yMax |-> MathMin({Zero, NAdd(yMaxVal, yPadding)})]

calculateDomain(ds, x, y) ==
  IF Falsy(x) \/ Falsy(y) \/ DOMAIN ds = {}
    THEN [xMin |-> Auto, xMax |-> Auto, yMin |-> Auto, yMax |-> Auto]
  ELSE
    LET at(p, key) == Get(ds[p[1]][p[2]], key.s)
        allXValues == {at(p, x) : p \in {q \in PointsOf(ds) : ~IsNullish(at(q, x))}}
        allYValues == {at(p, y) : p \in {q \in PointsOf(ds) : ~IsNullish(at(q, y))}}
    IN Bind(<<allXValues, allYValues>>,
            LAMBDA all :
              Bind(<<XDomain(all[1]), YDomain(all[2])>>,
                   LAMBDA d : [xMin |-> d[1].xMin, xMax |-> d[1].xMax,
                               yMin |-> d[2].yMin, yMax |-> d[2].yMax]))

-----------------------------------------------------------------------------
(* Values that are not in use by a specification *)

NoCmp == [ab |-> 0, ba |-> 0, bc |-> 0, ac |-> 0, aa |-> 0]
NoValue == [year |-> 0, month |-> 0, sep |-> "-", text |-> <<>>, number |-> Null]
NoParsed == [ym |-> Null, ymd |-> Null, text |-> Null, number |-> Null]
NoDomain == [xMin |-> Null, xMax |-> Null, yMin |-> Null, yMax |-> Null]
NoError == [message |-> ""]

PipelineIdle ==
  /\ fields = <<>>
  /\ records = <<>>
  /\ xKey = Str(<<>>)
  /\ yKey = Str(<<>>)
  /\ series = Str(<<>>)
  /\ sumData = TRUE
  /\ useBarChart = FALSE
  /\ dataset = <<>>
  /\ emitted = <<>>
  /\ domain = NoDomain
  /\ error = NoError

CompareIdle == a = Null /\ b = Null /\ c = Null /\ cmp = NoCmp

DateIdle == value = NoValue /\ parsed = NoParsed

FetchIdle == isLoaded = FALSE /\ currentRequestId = 0 /\ requests = <<>>

pipelineVars ==
  <<fields, records, xKey, yKey, series, sumData, useBarChart, dataset, emitted,
    domain, error>>
compareVars == <<a, b, c, cmp>>
dateVars == <<value, parsed>>
fetchVars == <<isLoaded, currentRequestId, requests>>

-----------------------------------------------------------------------------
(* compareValues applied to every pair of a triple of values *)

\* numbers, numeric-like strings, date strings, other strings, null, undefined
CompareValuesUniverse ==
  {Num(13 * Scale), Num(1991 * Scale), Str(txt13), Str(txt1991), Str(txt2000),
   Str(<<>>), Str(txtDash), Str(txtYearMonth), Str(txtYearMonthDay),
   Str(txtSlashDate), Str(txtBadMonth), Str(txtAbc), Str(txt12a), Null, Undef}

InitCompare ==
  /\ FetchIdle
  /\ PipelineIdle
  /\ DateIdle
  /\ a \in CompareValuesUniverse
  /\ b \in CompareValuesUniverse
  /\ c \in CompareValuesUniverse
  /\ cmp = NoCmp
  /\ pc = "start"

Compare ==
  /\ pc = "start"
  /\ cmp' = [ab |-> compareValues(a, b), ba |-> compareValues(b, a),
             bc |-> compareValues(b, c), ac |-> compareValues(a, c),
             aa |-> compareValues(a, a)]
  /\ pc' = "done"
  /\ UNCHANGED <<pipelineVars, dateVars, fetchVars, a, b, c>>

NextCompare == Compare

SpecCompare == InitCompare /\ [][NextCompare]_vars

\* C4: compareValues is antisymmetric: the sign of compareValues(a, b) is the
\* opposite of the sign of compareValues(b, a), and compareValues(a, a) = 0.
C4_Antisymmetric ==
  pc = "done" => Sign(cmp.ab) = -Sign(cmp.ba) /\ cmp.aa = 0

\* a date string against a text that is no date, compared both ways
C4_Witness ==
  /\ pc = "done"
  /\ a = Str(txtYearMonth)
  /\ b = Str(txtAbc)
  /\ cmp.ab < 0
  /\ cmp.ba > 0

\* C5: compareValues is transitive: compareValues(a, b) <= 0 and
\* compareValues(b, c) <= 0 imply compareValues(a, c) <= 0.
C5_Transitive ==
  pc = "done" => (cmp.ab <= 0 /\ cmp.bc <= 0 => cmp.ac <= 0)

-----------------------------------------------------------------------------
(* parseDate applied to "YYYY-MM", "YYYY-MM-01" and a text *)

Pad2(m) == IF m < 10 THEN <<"0">> \o NatToChars(m) ELSE NatToChars(m)
Pad4(y) ==
  IF y < 10 THEN <<"0", "0", "0">> \o NatToChars(y)
  ELSE IF y < 100 THEN <<"0", "0">> \o NatToChars(y)
  ELSE IF y < 1000 THEN <<"0">> \o NatToChars(y)
  ELSE NatToChars(y)

txtNotADate == <<"n", "o", "t", "-", "a", "-", "d", "a", "t", "e">>

Years == {50, 1950, 1991, 2000, 2024}
MaxMonth == 13
Texts == {txtNotADate, txtAbc, txtDash, <<>>}
\* timestamps: the epoch, one hour before it, and later instants
Timestamps == {Num(0), Num(-Scale), Num(Scale), Num(184080 * Scale)}

YearMonthText(v) == Pad4(v.year) \o <<v.sep>> \o Pad2(v.month)
YearMonthDayText(v) == YearMonthText(v) \o <<v.sep, "0", "1">>

InitDate ==
  /\ FetchIdle
  /\ PipelineIdle
  /\ CompareIdle
  /\ value \in [year : Years, month : 0..MaxMonth, sep : {"-", "/"}, text : Texts,
                number : Timestamps]
  /\ parsed = NoParsed
  /\ pc = "start"

ParseDates ==
  /\ pc = "start"
  /\ parsed' = [ym |-> parseDate(Str(YearMonthText(value))),
                ymd |-> parseDate(Str(YearMonthDayText(value))),
                text |-> parseDate(Str(value.text)),
                number |-> parseDate(value.number)]
  /\ pc' = "done"
  /\ UNCHANGED <<pipelineVars, compareVars, fetchVars, value>>

NextDate == ParseDates

SpecDate == InitDate /\ [][NextDate]_vars

\* hours from the epoch to local midnight of the first day of the month
LocalMidnightHours(year, month) == DaysFromCivil(year, month) * 24 - TzHours

ValidMonth(v) == v.month >= 1 /\ v.month <= 12

\* C9: for every year and valid month, parseDate("YYYY-MM") equals
\* parseDate("YYYY-MM-01") and both equal the local-midnight timestamp of the
\* first day of that month; parseDate of a text that is no date is null.
C9_DateRoundTrip ==
  pc = "done" =>
    /\ ValidMonth(value) =>
         /\ parsed.ym = parsed.ymd
         /\ parsed.ym.t = "num"
         /\ parsed.ym.n % Scale = 0
         /\ parsed.ym.n \div Scale = LocalMidnightHours(value.year, value.month)
    /\ parsed.text = Null

\* C20: parseDate returns a number unchanged, 0 and negative timestamps
\* included; it returns null only for an input that is no number and no date.
C20_NumbersUnchanged ==
  pc = "done" =>
    /\ parsed.number = value.number
    /\ parsed.ym = Null => ~ValidMonth(value)

\* C29: a string that isDateString accepts is parsed by parseDate to a
\* timestamp, never to null, whatever its month.
C29_Agree ==
  pc = "done" =>
    /\ isDateString(Str(YearMonthText(value))) => parsed.ym # Null
    /\ isDateString(Str(YearMonthDayText(value))) => parsed.ymd # Null
    /\ isDateString(Str(value.text)) => parsed.text # Null

-----------------------------------------------------------------------------
(* The dataset handler of GovDataChart on generated datasets: computeLabels, *)
(* shouldSumData and shouldUseBarChart on the received fields and records    *)

MaxFields == 3
NumRows == 5

Range(seq) == {seq[i] : i \in 1..Len(seq)}
IsInjective(seq) == \A i, j \in 1..Len(seq) : seq[i] = seq[j] => i = j

\* field lists: the ids of a dataset are pairwise different
FieldLists ==
  {fl \in UNION {[1..k -> LabelFieldIds] : k \in 1..MaxFields} : IsInjective(fl)}

txtA == <<"a">>
txtB == <<"b">>

\* the value of a generated column in row i
ColumnKinds == {"serial", "pair", "years", "const", "absent"}
Column(kind, i) ==
  CASE kind = "serial" -> Num(i * Scale)
    [] kind = "pair" -> IF i % 2 = 1 THEN Str(txtA) ELSE Str(txtB)
    [] kind = "years" -> IF i % 2 = 1 THEN Str(txt1991) ELSE Str(txt2000)
    [] kind = "const" -> Str(txt13)
    [] OTHER -> Undef

\* rows of the columns cols (one kind per field); an absent column has no key
MakeRecords(flds, cols, rows) ==
  LET present == {k \in 1..Len(flds) : cols[k] # "absent"}
  IN [i \in 1..rows |->
        Obj([id \in {flds[k] : k \in present} |->
               Column(cols[CHOOSE k \in present : flds[k] = id], i)])]

RowCounts == {NumRows}

InitLabels ==
  /\ FetchIdle
  /\ CompareIdle
  /\ DateIdle
  /\ fields \in FieldLists
  /\ \E cols \in [1..Len(fields) -> ColumnKinds], rows \in RowCounts :
       records = MakeRecords(fields, cols, rows)
  /\ xKey = Str(<<>>)
  /\ yKey = Str(<<>>)
  /\ series = Str(<<>>)
  /\ sumData = TRUE
  /\ useBarChart = FALSE
  /\ dataset = <<>>
  /\ emitted = <<>>
  /\ domain = NoDomain
  /\ error = NoError
  /\ pc = "start"

\* GovDataChart.js lines 651-668: setXKey(x); setYKey(y); setSeries(series || "");
\* setSumData(shouldSumData(...)); setUseBarChart(shouldUseBarChart(...))
SetLabels ==
  /\ pc = "start"
  /\ Len(fields) > 0 /\ Len(records) > 0
  /\ \E l \in {computeLabels(fields, records)} :
        /\ xKey' = l.x
        /\ yKey' = l.y
        /\ series' = OrElse(l.series, Str(<<>>))
        /\ sumData' = shouldSumData(records, l.x, l.y)
        /\ useBarChart' = shouldUseBarChart(records, l.x, fields)
  /\ pc' = "done"
  /\ UNCHANGED <<fields, records, dataset, emitted, domain, error,
                 compareVars, dateVars, fetchVars>>

NextLabels == SetLabels

SpecLabels == InitLabels /\ [][NextLabels]_vars

\* the fields whose id is present in the first record
Analyzable == {id \in Range(fields) : Get(records[1], id) # Undef}

\* number of different values of a column in the sample of the first 100 records
SampledUniqueCount(id) ==
  Cardinality({Get(records[i], id) : i \in 1..Min2(SampleSize, Len(records))})

\* the handler stores series || "": the empty string stands for a null series
SeriesIsNull == series = Str(<<>>)

\* C1: whenever at least 2 fields are analyzable (their id is present in the
\* first record), the returned xKey and yKey are different.
C1_Distinct ==
  pc = "done" /\ Cardinality(Analyzable) >= 2 => xKey # yKey

\* two analyzable fields, both time fields: no candidate is left for Y and the
\* fallback has to find the other field
C1_Witness ==
  /\ pc = "done"
  /\ Analyzable = {idYear, idMonth}
  /\ {xKey, yKey} = {Str(idYear), Str(idMonth)}

\* C2: a non-null seriesKey differs from xKey and from yKey, is not "_id", and
\* its sampled unique count u satisfies 1 < u < min(50, 50% of the record
\* count) and u < 90% of the record count.
C2_SeriesValid ==
  pc = "done" /\ ~SeriesIsNull =>
    /\ series # xKey
    /\ series # yKey
    /\ series # Str(txtId)
    /\ series.s \in Analyzable
    /\ LET u == SampledUniqueCount(series.s)
       IN /\ 1 < u
          /\ u < 50
          /\ 2 * u < Len(records)
          /\ 10 * u < 9 * Len(records)

\* a series was chosen although the "_id" column comes first and has a
\* unique count within the bounds
C2_Witness ==
  /\ pc = "done"
  /\ ~SeriesIsNull
  /\ Len(fields) >= 3
  /\ fields[1] = txtId
  /\ SampledUniqueCount(txtId) = 2
  /\ series # Str(txtId)

\* C3: whenever 2 or fewer fields are analyzable, the returned seriesKey is
\* null, whatever the values and cardinalities of the fields.
C3_NoSeriesForTwoFields ==
  pc = "done" /\ Cardinality(Analyzable) <= 2 => SeriesIsNull

\* two analyzable fields of which the one that is not X has a unique count
\* within the bounds of a series
C3_Witness ==
  /\ pc = "done"
  /\ Cardinality(Analyzable) = 2
  /\ SeriesIsNull
  /\ \E id \in Analyzable :
       /\ Str(id) # xKey
       /\ id # txtId
       /\ SampledUniqueCount(id) = 2
       /\ 2 * 2 < Len(records)

\* the analyses of the fields of the dataset, in the order of the fields
Analyses == fieldAnalyses(fields, records)

\* Y as step 2 first sets it, before any pass that repairs X = Y
FirstY(fa, x) ==
  IF Len(SortedByY(fa, x)) > 0 THEN NameOf(SortedByY(fa, x)[1])
  ELSE FallbackY(fa, x)

\* a correction pass fires when X and Y come out equal
CorrectionFires(fa) == FirstY(fa, ChooseX(fa)) = ChooseX(fa)

\* field i has the highest X score, and is the first field that has it
FirstBestX(fa, i) ==
  \A j \in 1..Len(fa) :
    /\ fa[j].xScore <= fa[i].xScore
    /\ j < i => fa[j].xScore < fa[i].xScore

\* a key that is the id of an input field which the first record holds
RealField(key) ==
  /\ IsString(key)
  /\ key.s \in Range(fields)
  /\ Get(records[1], key.s) # Undef

\* C30: the X and Y keys that computeLabels returns are ids of input fields
\* that the first record holds, never undefined.
C30_RealFields == pc = "done" => RealField(xKey) /\ RealField(yKey)

\* C17: with at least 2 analyzable fields and no correction pass, the X key is
\* the field with the highest X score, the first one in field order among
\* fields that share the highest score.
C17_XChoice ==
  pc = "done" /\ Len(Analyses) >= 2 /\ ~CorrectionFires(Analyses) =>
    \E i \in 1..Len(Analyses) :
      xKey = NameOf(Analyses[i]) /\ FirstBestX(Analyses, i)

\* two fields share the highest X score and the earlier one is X
C17_Witness ==
  /\ pc = "done"
  /\ Len(Analyses) >= 2
  /\ ~CorrectionFires(Analyses)
  /\ \E i, j \in 1..Len(Analyses) :
       /\ i < j
       /\ xKey = NameOf(Analyses[i])
       /\ FirstBestX(Analyses, i)
       /\ Analyses[j].xScore = Analyses[i].xScore

-----------------------------------------------------------------------------
(* The dataset handler on datasets of time fields and of fields whose names  *)
(* differ by white space only                                                *)

FallbackIds == {idYear, idMonth, idDay, idTown, idTownPadded}

FallbackLists ==
  {fl \in UNION {[1..k -> FallbackIds] : k \in 2..MaxFields} : IsInjective(fl)}

FallbackKinds == {"serial", "pair"}

InitFallback ==
  /\ FetchIdle
  /\ CompareIdle
  /\ DateIdle
  /\ fields \in FallbackLists
  /\ \E cols \in [1..Len(fields) -> FallbackKinds] :
       records = MakeRecords(fields, cols, NumRows)
  /\ xKey = Str(<<>>)
  /\ yKey = Str(<<>>)
  /\ series = Str(<<>>)
  /\ sumData = TRUE
  /\ useBarChart = FALSE
  /\ dataset = <<>>
  /\ emitted = <<>>
  /\ domain = NoDomain
  /\ error = NoError
  /\ pc = "start"

SpecFallback == InitFallback /\ [][NextLabels]_vars

\* the place of the X key among the analyses
XIndex(fa) == CHOOSE i \in 1..Len(fa) : NameOf(fa[i]) = xKey

NamesOf(fa, S) == {NameOf(fa[j]) : j \in S}

\* the fields that the fallback order of the Y choice allows
FallbackChoice(fa, others) ==
  LET numericNonTime == {j \in others : fa[j].isNumeric /\ ~fa[j].isTime}
      numericOther == {j \in others : fa[j].isNumeric}
  IN IF numericNonTime # {} THEN numericNonTime
     ELSE IF numericOther # {} THEN numericOther
     ELSE others

\* C18: Y has the highest Y score among the fields other than X, time fields
\* left out when X is a time field; when no such field exists Y follows the
\* fallback order numeric non-time field, numeric field, any field other than
\* X; Y equals X only when at most one field is analyzable.
C18_YChoice ==
  pc = "done" /\ Len(Analyses) >= 2 =>
    LET fa == Analyses
        others == {j \in 1..Len(fa) : j # XIndex(fa)}
        candidates == {j \in others : ~(fa[XIndex(fa)].isTime /\ fa[j].isTime)}
        best == {j \in candidates :
                   \A k \in candidates : fa[k].yScore <= fa[j].yScore}
    IN /\ yKey # xKey
       /\ IF candidates # {} THEN yKey \in NamesOf(fa, best)
          ELSE yKey \in NamesOf(fa, FallbackChoice(fa, others))

-----------------------------------------------------------------------------
(* The dataset handler on datasets whose columns have 1 to 21 different      *)
(* values                                                                    *)

NumSeriesRows == 44

SeriesFieldLists ==
  {<<idYear, idResalePrice, idTown, idMonth>>,
   <<idYear, idResalePrice, idMonth, idTown>>,
   <<idYear, idResalePrice, txtId, idTown>>}

\* the number of different values of a column, 0 for one value per row
UniqueCounts == {0, 1, 2, 3, 13, 21}
CountedColumn(u, i) == IF u = 0 THEN Num(i * Scale) ELSE Num((i % u) * Scale)

InitSeries ==
  /\ FetchIdle
  /\ CompareIdle
  /\ DateIdle
  /\ fields \in SeriesFieldLists
  /\ \E u3, u4 \in UniqueCounts :
       records = [i \in 1..NumSeriesRows |->
                    Obj([id \in Range(fields) |->
                           CountedColumn(IF id = fields[3] THEN u3
                                         ELSE IF id = fields[4] THEN u4
                                         ELSE 0, i)])]
  /\ xKey = Str(<<>>)
  /\ yKey = Str(<<>>)
  /\ series = Str(<<>>)
  /\ sumData = TRUE
  /\ useBarChart = FALSE
  /\ dataset = <<>>
  /\ emitted = <<>>
  /\ domain = NoDomain
  /\ error = NoError
  /\ pc = "start"

SpecSeries == InitSeries /\ [][NextLabels]_vars

\* the fields that may become the series
SeriesCandidates(fa) ==
  {j \in 1..Len(fa) :
     /\ NameOf(fa[j]) \notin {xKey, yKey, Str(txtId)}
     /\ fa[j].uniqueCount > 1
     /\ fa[j].uniqueCount < 50
     /\ 2 * fa[j].uniqueCount < Len(records)
     /\ 10 * fa[j].uniqueCount < 9 * Len(records)}

\* twice the distance of a unique count from 7.5
Distance(u) == Abs(2 * u - 15)

\* C19: with 3 or more analyzable fields the series is the candidate whose
\* unique count lies in [2, 20] and is closest to 7.5, the earlier field
\* winning an equal distance; without a candidate in [2, 20] it is the first
\* candidate; without a candidate it is null.
C19_SeriesChoice ==
  pc = "done" /\ Len(Analyses) >= 3 =>
    LET fa == Analyses
        candidates == SeriesCandidates(fa)
        ideal == {j \in candidates :
                    fa[j].uniqueCount >= 2 /\ fa[j].uniqueCount <= 20}
    IN IF candidates = {} THEN SeriesIsNull
       ELSE IF ideal # {}
         THEN \E j \in ideal :
                /\ series = NameOf(fa[j])
                /\ \A k \in ideal :
                     /\ Distance(fa[j].uniqueCount) <= Distance(fa[k].uniqueCount)
                     /\ k < j =>
                          Distance(fa[j].uniqueCount) < Distance(fa[k].uniqueCount)
       ELSE \E j \in candidates :
              series = NameOf(fa[j]) /\ \A k \in candidates : j <= k

\* the second of two candidates in [2, 20] is closer to 7.5 and is the series
C19_Witness ==
  /\ pc = "done"
  /\ Len(Analyses) >= 3
  /\ \E j, k \in SeriesCandidates(Analyses) :
       /\ k < j
       /\ Analyses[j].uniqueCount <= 20 /\ Analyses[k].uniqueCount <= 20
       /\ Distance(Analyses[j].uniqueCount) < Distance(Analyses[k].uniqueCount)
       /\ series = NameOf(Analyses[j])

-----------------------------------------------------------------------------
(* End-to-end scenario 1: fields [year, town, resale_price], 3 records *)

ScenarioYears == {Num(1990 * Scale), Num(1991 * Scale)}
ScenarioTowns == {Str(txtA), Str(txtB)}
ScenarioPrices == {Num(100 * Scale), Str(txt13), Str(txtAbc)}
ScenarioRecord(y, t, p) ==
  Obj([id \in {idYear, idTown, idResalePrice} |->
         IF id = idYear THEN y ELSE IF id = idTown THEN t ELSE p])

InitScenario1 ==
  /\ FetchIdle
  /\ CompareIdle
  /\ DateIdle
  /\ fields = <<idYear, idTown, idResalePrice>>
  /\ records \in [1..3 ->
                    {ScenarioRecord(y, t, p) :
                       y \in ScenarioYears, t \in ScenarioTowns, p \in ScenarioPrices}]
  /\ xKey = Str(<<>>)
  /\ yKey = Str(<<>>)
  /\ series = Str(<<>>)
  /\ sumData = TRUE
  /\ useBarChart = FALSE
  /\ dataset = <<>>
  /\ emitted = <<>>
  /\ domain = NoDomain
  /\ error = NoError
  /\ pc = "start"

SpecScenario1 == InitScenario1 /\ [][NextLabels]_vars

Rows == 1..Len(records)
YearOf(i) == Get(records[i], idYear)
TownOf(i) == Get(records[i], idTown)
PriceOf(i) == Get(records[i], idResalePrice)

\* town has at least 2 distinct values and some year repeats
ScenarioInput ==
  /\ \E i, j \in Rows : TownOf(i) # TownOf(j)
  /\ \E i, j \in Rows : i # j /\ YearOf(i) = YearOf(j)

\* two records with the same (year, town) both carry a numeric resale_price
NumericCollisionPerTown ==
  \E i, j \in Rows :
    /\ i # j
    /\ YearOf(i) = YearOf(j)
    /\ TownOf(i) = TownOf(j)
    /\ isFloatOrInt(PriceOf(i))
    /\ isFloatOrInt(PriceOf(j))

\* two records with the same year both carry a numeric resale_price
NumericCollisionPerYear ==
  \E i, j \in Rows :
    /\ i # j
    /\ YearOf(i) = YearOf(j)
    /\ isFloatOrInt(PriceOf(i))
    /\ isFloatOrInt(PriceOf(j))

-----------------------------------------------------------------------------
(* The reshaper and the domain effect on generated records                  *)

NumRecords == 3

\* the X column repeats three values drawn from XValues
YKinds == {"numbers", "numericText", "textFirst", "blankLast", "texts"}
YCell(kind, i) ==
  CASE kind = "numbers" -> Num(i * Scale + Scale \div 2)
    [] kind = "numericText" -> Str(NatToChars(10 + i))
    [] kind = "textFirst" -> IF i % 2 = 1 THEN Str(txtAbc) ELSE Num(i * Scale)
    [] kind = "texts" -> IF i = 1 THEN Str(txtAbc) ELSE Str(<<>>)
    [] OTHER -> IF i % 2 = 1 THEN Num(i * Scale) ELSE Str(<<>>)

SeriesKinds == {"same", "split"}
SeriesCell(kind, i) ==
  IF kind = "same" THEN Str(txtA)
  ELSE IF i % 2 = 1 THEN Str(<<>>) ELSE Str(txtB)

ReshapeRecord(xv, yv, sv) ==
  Obj([id \in {idMonth, idResalePrice, idTown} |->
         IF id = idMonth THEN xv ELSE IF id = idResalePrice THEN yv ELSE sv])

InitReshape ==
  /\ FetchIdle
  /\ CompareIdle
  /\ DateIdle
  /\ fields = <<idMonth, idResalePrice, idTown>>
  /\ \E xs \in [0..2 -> XValues], yk \in YKinds, sk \in SeriesKinds :
       records = [i \in 1..NumRecords |->
                    ReshapeRecord(xs[(i - 1) % 3], YCell(yk, i), SeriesCell(sk, i))]
  /\ xKey = Str(idMonth)
  /\ yKey = Str(idResalePrice)
  /\ series \in {Str(<<>>), Str(idTown)}
  /\ sumData \in BOOLEAN
  /\ useBarChart = FALSE
  /\ dataset = <<>>
  /\ emitted = <<>>
  /\ domain = NoDomain
  /\ error = NoError
  /\ pc = "start"

\* lines 803-974: the memo computes processedDataset, the effect stores a
\* non-empty one with its domain
Reshape ==
  /\ pc = "start"
  /\ \E d \in processedDataset(records, xKey, yKey, series, sumData) :
       IF DOMAIN d # {}
         THEN dataset' = d /\ domain' = calculateDomain(d, xKey, yKey)
       ELSE UNCHANGED <<dataset, domain>>
  /\ pc' = "reshaped"
  /\ UNCHANGED <<fields, records, xKey, yKey, series, sumData, useBarChart,
                 emitted, error,
                 compareVars, dateVars, fetchVars>>

\* the reshaper applied again, with sumData = true and the same keys, to the
\* points of one series it emitted
Rerun ==
  /\ pc = "reshaped"
  /\ sumData
  /\ \E id \in DOMAIN dataset :
       /\ emitted' = dataset[id]
       /\ records' = dataset[id]
       /\ \E d \in processedDataset(dataset[id], xKey, yKey, series, sumData) :
            dataset' = d /\ domain' = calculateDomain(d, xKey, yKey)
  /\ pc' = "rerun"
  /\ UNCHANGED <<fields, xKey, yKey, series, sumData, useBarChart, error,
                 compareVars, dateVars, fetchVars>>

NextReshape == Reshape \/ Rerun

SpecReshape == InitReshape /\ [][NextReshape]_vars

RecordIndexes == 1..Len(records)

\* the X value of a record as the reshaper groups it
RecX(i) ==
  Get(RewriteDates(records, xKey, XKeyIsDate(records, xKey))[i], xKey.s)
RecY(i) == Get(records[i], yKey.s)
RecSeries(i) == SeriesIdOf(records[i], series)

\* a number, or a text that is a decimal literal
IsNumericY(v) ==
  \/ v.t = "num"
  \/ v.t = "str" /\ isFloatOrInt(v) /\ parseFloat(v).t = "num"

RECURSIVE SumY(_)
SumY(S) ==
  IF S = {} THEN 0
  ELSE LET i == CHOOSE j \in S : TRUE
       IN parseFloat(RecY(i)).n + SumY(S \ {i})

\* the records of the series and X value of record i
GroupOf(i) ==
  {j \in RecordIndexes : RecSeries(j) = RecSeries(i) /\ RecX(j) = RecX(i)}

\* the points of the series of record i that carry its X value
PointsFor(i) ==
  {k \in 1..Len(dataset[RecSeries(i)]) :
     Get(dataset[RecSeries(i)][k], xKey.s) = RecX(i)}

\* C6: with sumData = true, for every series and every X value that occurs in
\* k records of that series, all with numeric Y, the output series holds
\* exactly one point for that X and its Y is the sum of those k Y values.
C6_SumInvariant ==
  pc = "reshaped" /\ sumData =>
    \A i \in RecordIndexes :
      (\A j \in GroupOf(i) : IsNumericY(RecY(j))) =>
        /\ RecSeries(i) \in DOMAIN dataset
        /\ Cardinality(PointsFor(i)) = 1
        /\ \A k \in PointsFor(i) :
             Get(dataset[RecSeries(i)][k], yKey.s) = Num(SumY(GroupOf(i)))

\* two records of one series meet on one X value, one of them with its Y
\* written as text, and the point carries the sum
C6_Witness ==
  /\ pc = "reshaped"
  /\ sumData
  /\ \E i, j \in RecordIndexes :
       /\ i # j
       /\ j \in GroupOf(i)
       /\ \A m \in GroupOf(i) : IsNumericY(RecY(m))
       /\ RecY(i).t = "str"
       /\ \E k \in PointsFor(i) :
            Get(dataset[RecSeries(i)][k], yKey.s) = Num(SumY(GroupOf(i)))

\* compareValues is consistent on the X values of the records, so that the
\* sort keeps records of equal X in their order
ConsistentOnRecords ==
  \A i, j, k \in RecordIndexes :
    /\ CompareByX(records[i], records[j], xKey) <= 0
    /\ CompareByX(records[j], records[k], xKey) <= 0
    => CompareByX(records[i], records[k], xKey) <= 0

NumericIn(S) == {j \in S : IsNumericY(RecY(j))}

C7_Idempotent ==
  pc = "rerun" =>
    /\ DOMAIN dataset # {}
    /\ \A id \in DOMAIN dataset : dataset[id] = emitted

-----------------------------------------------------------------------------
(* calculateDomain on generated series                                      *)

MaxPoints == 3

DomainXValues ==
  {Num(Scale), Num(2 * Scale), Str(txt13), Str(<<>>), Str(txtAbc),
   Str(txtYearMonth)}
DomainYValues ==
  {Num(0), Num(Scale + Scale \div 2), Num(-2 * Scale - Scale \div 2), Exp7(1),
   Str(txtAbc), Null}

\* the X and the Y bounds are computed apart: one column varies at a time
DomainPoints ==
  {Point(idYear, idResalePrice, xv, Num(Scale + Scale \div 2)) :
     xv \in DomainXValues}
  \cup {Point(idYear, idResalePrice, Num(Scale), yv) : yv \in DomainYValues}
  \cup {Point(idYear, idResalePrice, Num(2 * Scale), yv) : yv \in DomainYValues}

InitDomain ==
  /\ FetchIdle
  /\ CompareIdle
  /\ DateIdle
  /\ fields = <<idYear, idResalePrice>>
  /\ records = <<>>
  /\ xKey = Str(idYear)
  /\ yKey = Str(idResalePrice)
  /\ series = Str(<<>>)
  /\ sumData = TRUE
  /\ useBarChart = FALSE
  /\ \E n \in 1..MaxPoints : \E pts \in [1..n -> DomainPoints] :
       dataset = [id \in {txtDefault} |-> pts]
  /\ emitted = <<>>
  /\ domain = NoDomain
  /\ error = NoError
  /\ pc = "start"

\* lines 964-974: the effect computes the domain of the processed dataset
CalculateDomain ==
  /\ pc = "start"
  /\ domain' = calculateDomain(dataset, xKey, yKey)
  /\ pc' = "done"
  /\ UNCHANGED <<fields, records, xKey, yKey, series, sumData, useBarChart,
                 dataset, emitted, error,
                 compareVars, dateVars, fetchVars>>

NextDomain == CalculateDomain

SpecDomain == InitDomain /\ [][NextDomain]_vars

\* the Y values of the points
YValuesOf(ds) == {Get(ds[p[1]][p[2]], yKey.s) : p \in PointsOf(ds)}

\* a number in units of 10^-7
InUnits(v) == IF v.t = "exp" THEN v.n ELSE v.n * 10000

\* C8: when every Y value equals a number v that is not 0, the Y domain
\* contains [v - 0.2|v|, v + 0.2|v|]; when every Y value is 0, the Y domain is
\* exactly yMin = 0, yMax = 1.
C8_ConstantY ==
  pc = "done" =>
    \A v \in YValuesOf(dataset) :
      YValuesOf(dataset) = {v} /\ v.t \in {"num", "exp"} =>
        IF v = Zero THEN domain.yMin = Zero /\ domain.yMax = One
        ELSE /\ domain.yMin.t = "num"
             /\ domain.yMax.t = "num"
             /\ 5 * InUnits(domain.yMin) <= 5 * InUnits(v) - Abs(InUnits(v))
             /\ 5 * InUnits(domain.yMax) >= 5 * InUnits(v) + Abs(InUnits(v))

\* the X values of the points
XValuesOf(ds) == {Get(ds[p[1]][p[2]], xKey.s) : p \in PointsOf(ds)}

\* a number, or a string that reads as a number
IsNumericX(v) ==
  v.t = "num" \/ (IsString(v) /\ isFloatOrInt(v) /\ parseFloat(v).t = "num")

\* the numbers that numeric X values stand for, in thousandths
XNumbers(ds) ==
  {(IF v.t = "num" THEN v ELSE parseFloat(v)).n : v \in XValuesOf(ds)}

Least(S) == CHOOSE m \in S : \A k \in S : m <= k
Greatest(S) == CHOOSE m \in S : \A k \in S : m >= k

\* C11: when every X value of the dataset is numeric, xMin and xMax are both
\* "auto" if the values are all identical, and otherwise xMin is the least
\* value minus 5% of the range and xMax the greatest value plus 5% of the range.
C11_XDomain ==
  pc = "done" /\ (\A v \in XValuesOf(dataset) : IsNumericX(v)) =>
    LET lo == Least(XNumbers(dataset))
        hi == Greatest(XNumbers(dataset))
    IN IF lo = hi THEN domain.xMin = Auto /\ domain.xMax = Auto
       ELSE /\ domain.xMin = Num(lo - (hi - lo) \div 20)
            /\ domain.xMax = Num(hi + (hi - lo) \div 20)

\* numbers and a numeric string that differ: the bounds are padded
C11_Witness ==
  /\ pc = "done"
  /\ XValuesOf(dataset) = {Num(Scale), Str(txt13)}
  /\ domain.xMin = Num(Scale - (12 * Scale) \div 20)
  /\ domain.xMax = Num(13 * Scale + (12 * Scale) \div 20)

\* every X value of the records is date-like
DateLikeColumn ==
  \A i \in RecordIndexes :
    isDateString(Str(StringOf(Get(records[i], xKey.s))))

\* the X values of the processed dataset
EmittedX ==
  {Get(dataset[p[1]][p[2]], xKey.s) : p \in PointsOf(dataset)}

\* C21: when the X values of the records are date-like, every X value of
\* every emitted series is a numeric timestamp.
C21_Timestamps ==
  pc = "reshaped" /\ DateLikeColumn => \A v \in EmittedX : v.t = "num"

\* "auto" or a number that is not NaN
IsBound(v) == v = Auto \/ v.t \in {"num", "exp"}

\* C13: each of xMin, xMax, yMin, yMax computed for a processed dataset is
\* either "auto" or a number that is not NaN.
C13_Bounds ==
  pc = "reshaped" /\ DOMAIN dataset # {} =>
    /\ IsBound(domain.xMin) /\ IsBound(domain.xMax)
    /\ IsBound(domain.yMin) /\ IsBound(domain.yMax)

\* consecutive points are in ascending order of X under compareValues
SortedByX(points) ==
  \A i \in 1..(Len(points) - 1) :
    CompareByX(points[i], points[i + 1], xKey) <= 0

\* C14: every series of the processed dataset is sorted ascending by X under
\* compareValues, for both values of sumData and with or without a series.
C14_SortedByX ==
  pc = "reshaped" => \A id \in DOMAIN dataset : SortedByX(dataset[id])

\* a number, or a text that parseDate reads
IsDateLikeX(v) == v.t = "num" \/ parseDate(Str(StringOf(v))) # Null

\* C23: xMin and xMax are numbers only when the X values are all numeric or
\* all date-like; for a column that is not numeric, or that mixes numbers with
\* text that is no date, both are "auto".
C23_UniformX ==
  pc = "done" /\ (domain.xMin # Auto \/ domain.xMax # Auto) =>
    \/ \A v \in XValuesOf(dataset) : IsNumericX(v)
    \/ \A v \in XValuesOf(dataset) : IsDateLikeX(v)

\* the Y values that are finite numbers, and the numbers that the numeric X
\* values stand for
NumbersY(ds) == {v \in YValuesOf(ds) : v.t \in {"num", "exp"}}
NumbersX(ds) ==
  {IF v.t = "num" THEN v ELSE parseFloat(v) : v \in {w \in XValuesOf(ds) : IsNumericX(w)}}

\* C28: when the dataset has a numeric Y value, yMin and yMax are numbers
\* with yMin < yMax that enclose every numeric Y value; when xMin and xMax
\* are numbers, every numeric X value lies strictly between them.
C28_Encloses ==
  pc = "done" =>
    /\ NumbersY(dataset) # {} =>
         /\ domain.yMin.t = "num"
         /\ domain.yMax.t = "num"
         /\ domain.yMin.n < domain.yMax.n
         /\ \A v \in NumbersY(dataset) :
              /\ InUnits(domain.yMin) <= InUnits(v)
              /\ InUnits(v) <= InUnits(domain.yMax)
    /\ domain.xMin.t = "num" /\ domain.xMax.t = "num" =>
         \A v \in NumbersX(dataset) : domain.xMin.n < v.n /\ v.n < domain.xMax.n

-----------------------------------------------------------------------------
(* calculateDomain on a series of Y values and on the negated series        *)

\* 0, 0.5, 1, 3, 150 and 2150: ranges below 1, up to 1000 and above 1000
MirrorYValues ==
  {Num(0), Num(Scale \div 2), Num(Scale), Num(3 * Scale), Num(150 * Scale),
   Num(2150 * Scale)}

Negate(v) == Num(0 - v.n)

\* the dataset with every Y value negated
Negated(ds, y) ==
  [id \in DOMAIN ds |->
     [i \in 1..Len(ds[id]) |-> SetField(ds[id][i], y.s, Negate(Get(ds[id][i], y.s)))]]

InitMirror ==
  /\ FetchIdle
  /\ CompareIdle
  /\ DateIdle
  /\ fields = <<idYear, idResalePrice>>
  /\ records = <<>>
  /\ xKey = Str(idYear)
  /\ yKey = Str(idResalePrice)
  /\ series = Str(<<>>)
  /\ sumData = TRUE
  /\ useBarChart = FALSE
  /\ \E n \in 1..MaxPoints : \E ys \in [1..n -> MirrorYValues] :
       dataset = [id \in {txtDefault} |->
                    [i \in 1..n |-> Point(idYear, idResalePrice, Num(i * Scale), ys[i])]]
  /\ emitted = <<>>
  /\ domain = NoDomain
  /\ error = NoError
  /\ pc = "start"

\* calculateDomain of the dataset and of the negated dataset
CalculateBoth ==
  /\ pc = "start"
  /\ domain' = [plain |-> calculateDomain(dataset, xKey, yKey),
                mirrored |-> calculateDomain(Negated(dataset, yKey), xKey, yKey)]
  /\ pc' = "done"
  /\ UNCHANGED <<fields, records, xKey, yKey, series, sumData, useBarChart,
                 dataset, emitted, error, compareVars, dateVars, fetchVars>>

NextMirror == CalculateBoth

SpecMirror == InitMirror /\ [][NextMirror]_vars

\* C24: for non-negative Y data with a range that is not zero, the Y bounds
\* of the negated data are the negated bounds of the data, exchanged:
\* yMin(-D) = -yMax(D) and yMax(-D) = -yMin(D).
C24_Mirror ==
  pc = "done" /\ Cardinality(YValuesOf(dataset)) > 1 =>
    /\ domain.mirrored.yMin = Negate(domain.plain.yMax)
    /\ domain.mirrored.yMax = Negate(domain.plain.yMin)

-----------------------------------------------------------------------------
(* computeLabels called with arguments of any shape                         *)

\* missing, not an array, empty
MalformedArguments == {Undef, Null, Num(0), Str(txtAbc), Str(<<>>), Arr(<<>>)}

GuardColumnKinds == {"serial", "pair"}

InitGuard ==
  /\ FetchIdle
  /\ CompareIdle
  /\ DateIdle
  /\ fields \in MalformedArguments \cup {Arr(fl) : fl \in FieldLists}
  /\ \/ records \in MalformedArguments
     \/ \E fl \in {IF IsArray(fields) /\ Len(fields.s) > 0 THEN fields.s
                   ELSE <<idYear, idTown>>} :
          \E cols \in [1..Len(fl) -> GuardColumnKinds], rows \in 1..NumRows :
            records = Arr(MakeRecords(fl, cols, rows))
  /\ xKey = Str(<<>>)
  /\ yKey = Str(<<>>)
  /\ series = Str(<<>>)
  /\ sumData = TRUE
  /\ useBarChart = FALSE
  /\ dataset = <<>>
  /\ emitted = <<>>
  /\ domain = NoDomain
  /\ error = NoError
  /\ pc = "start"

\* lines 983-1391: the call throws before it analyses anything
Throw ==
  /\ pc = "start"
  /\ validateInputs(fields, records) # ""
  /\ error' = [message |-> validateInputs(fields, records)]
  /\ pc' = "threw"
  /\ UNCHANGED <<fields, records, xKey, yKey, series, sumData, useBarChart,
                 dataset, emitted, domain, compareVars, dateVars, fetchVars>>

\* lines 983-1391: the call returns [temp_x, temp_y, temp_series]
Return ==
  /\ pc = "start"
  /\ validateInputs(fields, records) = ""
  /\ \E l \in {computeLabels(fields.s, records.s)} :
        /\ xKey' = l.x
        /\ yKey' = l.y
        /\ series' = l.series
  /\ pc' = "returned"
  /\ UNCHANGED <<fields, records, sumData, useBarChart, dataset, emitted, domain,
                 error, compareVars, dateVars, fetchVars>>

NextGuard == Throw \/ Return

SpecGuard == InitGuard /\ [][NextGuard]_vars

Missing(v) == v = Null \/ v = Undef
NotASequence(v) == v.t # "array"
EmptySequence(v) == v.t = "array" /\ v.s = <<>>
Malformed(v) == Missing(v) \/ NotASequence(v) \/ EmptySequence(v)

\* C12: a call of computeLabels whose fields or records argument is empty,
\* missing or not a sequence ends with an error and without an axis selection;
\* it never returns.
C12_InvalidInput ==
  pc # "start" /\ (Malformed(fields) \/ Malformed(records)) =>
    /\ pc = "threw"
    /\ error.message \in {txtFieldsInvalid, txtRecordsInvalid}
    /\ xKey = Str(<<>>) /\ yKey = Str(<<>>) /\ series = Str(<<>>)

\* fields are well formed and records is an empty array: the call threw
C12_Witness ==
  /\ pc = "threw"
  /\ IsArray(fields) /\ Len(fields.s) > 0
  /\ records = Arr(<<>>)
  /\ error.message = txtRecordsInvalid

-----------------------------------------------------------------------------
(* shouldSumData and shouldUseBarChart on generated columns                 *)

NumPolicyRows == 5

txtOne == <<"1">>

PolicyXValues == {Num(Scale), Str(txtOne), Str(txtAbc), Null}

\* the Y value of row i
PolicyYKinds == {"numbers", "blankOrExponent", "oneNumber"}
PolicyY(kind, i) ==
  CASE kind = "numbers" -> Num(i * Scale)
    [] kind = "blankOrExponent" -> IF i % 2 = 1 THEN Str(<<>>) ELSE Exp7(i)
    [] OTHER -> IF i = 1 THEN Num(Scale) ELSE Str(txtAbc)

InitPolicy ==
  /\ FetchIdle
  /\ CompareIdle
  /\ DateIdle
  /\ fields \in {<<idMonth, idResalePrice>>, <<idTown, idResalePrice>>}
  /\ \E n \in 0..NumPolicyRows, kind \in PolicyYKinds :
       \E xs \in [1..n -> PolicyXValues] :
         records = [i \in 1..n |->
                      Point(fields[1], idResalePrice, xs[i], PolicyY(kind, i))]
  /\ \E keys \in {<<fields[1], idResalePrice>>} \cup
                 (IF fields[1] = idTown
                    THEN {<<<<>>, idResalePrice>>, <<idTown, <<>>>>}
                  ELSE {}) :
       xKey = Str(keys[1]) /\ yKey = Str(keys[2])
  /\ series = Str(<<>>)
  /\ sumData = TRUE
  /\ useBarChart = FALSE
  /\ dataset = <<>>
  /\ emitted = <<>>
  /\ domain = NoDomain
  /\ error = NoError
  /\ pc = "start"

\* GovDataChart.js lines 662-673: setSumData(shouldSumData(records, x, y));
\* setUseBarChart(shouldUseBarChart(records, x, fields))
Decide ==
  /\ pc = "start"
  /\ sumData' = shouldSumData(records, xKey, yKey)
  /\ useBarChart' = shouldUseBarChart(records, xKey, fields)
  /\ pc' = "done"
  /\ UNCHANGED <<fields, records, xKey, yKey, series, dataset, emitted, domain,
                 error, compareVars, dateVars, fetchVars>>

NextPolicy == Decide

SpecPolicy == InitPolicy /\ [][NextPolicy]_vars

\* the rows that have a value at X
RowsWithX == {i \in 1..Len(records) : ~IsNullish(Get(records[i], xKey.s))}
XOfRow(i) == Get(records[i], xKey.s)
YOfRow(i) == Get(records[i], yKey.s)
NumericLikeRows == {i \in RowsWithX : isFloatOrInt(XOfRow(i))}
UniqueX == {XOfRow(i) : i \in RowsWithX}

\* C15: the bar chart is chosen exactly when the X field is not a time field
\* and the X values are either less than 80% numeric, or at least 80% numeric
\* with fewer than 20 unique values and a unique ratio below 50%; it is not
\* chosen when no record has a value at X.
C15_BarChart ==
  pc = "done" =>
    LET total == Cardinality(RowsWithX)
        numeric == 5 * Cardinality(NumericLikeRows) >= 4 * total
        few == Cardinality(UniqueX) < 20 /\ 2 * Cardinality(UniqueX) < total
    IN useBarChart <=>
         /\ total > 0
         /\ ~isTimeField(xKey.s)
         /\ (~numeric \/ few)

\* a number, or a string that is not blank and reads as a number
IsNumericValue(v) ==
  v.t \in {"num", "exp"}
  \/ (IsString(v) /\ v.s # <<>> /\ isFloatOrInt(v) /\ parseFloat(v).t = "num")

\* C16: summing is chosen exactly when some X value is shared by more than one
\* record and more than one of the records sharing it has a numeric Y value.
C16_SumData ==
  pc = "done" =>
    (sumData <=>
       \E i \in RowsWithX :
         LET group == {j \in RowsWithX : XOfRow(j) = XOfRow(i)}
         IN /\ Cardinality(group) > 1
            /\ Cardinality({j \in group : IsNumericValue(YOfRow(j))}) > 1)


-----------------------------------------------------------------------------
(* The dataset fetch of GovDataChart: selections, requests in flight and   *)
(* the handlers of their promise chains.  A handler runs to completion,    *)
(* with the render and the dataset effect that follow its state updates,   *)
(* before the next event is handled.                                       *)

MaxRequests == 3
NumFetchRows == 2

AutoDomain == [xMin |-> Auto, xMax |-> Auto, yMin |-> Auto, yMax |-> Auto]

\* the state of the component that the effect and the handlers update
State ==
  [error |-> error, fields |-> fields, records |-> records, xKey |-> xKey,
   yKey |-> yKey, series |-> series, sumData |-> sumData,
   useBarChart |-> useBarChart, dataset |-> dataset, domain |-> domain,
   isLoaded |-> isLoaded]

Store(st) ==
  /\ error' = st.error
  /\ fields' = st.fields
  /\ records' = st.records
  /\ xKey' = st.xKey
  /\ yKey' = st.yKey
  /\ series' = st.series
  /\ sumData' = st.sumData
  /\ useBarChart' = st.useBarChart
  /\ dataset' = st.dataset
  /\ domain' = st.domain
  /\ isLoaded' = st.isLoaded

\* the reset without setDataset([])
resetState_KeepsDataset(st) ==
  [st EXCEPT !.isLoaded = FALSE, !.error = NoError, !.fields = Undef,
             !.records = Undef, !.xKey = Str(<<>>),
             !.yKey = Str(<<>>), !.series = Str(<<>>), !.useBarChart = FALSE,
             !.domain = AutoDomain]

\* lines 505-517; result = [] has neither fields nor records
resetState(st) ==
  [st EXCEPT !.isLoaded = FALSE, !.error = NoError, !.fields = Undef,
             !.records = Undef, !.dataset = <<>>, !.xKey = Str(<<>>),
             !.yKey = Str(<<>>), !.series = Str(<<>>), !.useBarChart = FALSE,
             !.domain = AutoDomain]

\* lines 803-962: the memoised processedDataset of a state
memo(st) ==
  IF Falsy(st.records) \/ Falsy(st.xKey) \/ Falsy(st.yKey) \/ ~IsArray(st.records)
    THEN {<<>>}
  ELSE processedDataset(st.records.s, st.xKey, st.yKey, st.series, st.sumData)

\* line 962: the dependencies of the memo
memoDeps(st) == <<st.sumData, st.fields, st.records, st.series, st.xKey, st.yKey>>

\* lines 803-974: the render after the updates that lead from old to st; the
\* memo is computed again when one of its dependencies changed, and the
\* effect stores a processed dataset that is not empty, with its domain
render(old, st) ==
  IF memoDeps(st) = memoDeps(old) THEN {st}
  ELSE {IF DOMAIN d # {}
          THEN [st EXCEPT !.dataset = d,
                          !.domain = calculateDomain(d, st.xKey, st.yKey)]
        ELSE st : d \in memo(st)}

\* the check that opens every handler, answering "never stale"
IsStale_Never(aborted, requestId, current) == FALSE

\* the check that opens every handler, answering "always stale"
IsStale_Always(aborted, requestId, current) == TRUE

\* lines 534-537, 546-549, 578-581, 764-768:
\* abortController.signal.aborted || requestId !== currentRequestIdRef.current
IsStale(aborted, requestId, current) == aborted \/ requestId # current

\* the rows that the endpoint returns for a request: the Y values tell the
\* requests apart
SampleFields == <<idYear, idResalePrice>>
RowsOf(r) ==
  [i \in 1..NumFetchRows |->
     Obj([id \in {idYear, idResalePrice} |->
            IF id = idYear THEN Num((1990 + i) * Scale)
            ELSE Num(r * Scale + i * 100)])]

\* the parsed bodies of a response with status ok
ResponseKinds ==
  {"v2", "v2NoRows", "v2RowsNotArray", "v2NoFields", "v2NullRow", "ckan",
   "ckanEmpty", "unknown"}
Response(r, kind) ==
  CASE kind = "v2" ->
         [format |-> "v2", fields |-> Arr(SampleFields), rows |-> Arr(RowsOf(r))]
    [] kind = "v2NoRows" ->
         [format |-> "v2", fields |-> Arr(SampleFields), rows |-> Arr(<<>>)]
    [] kind = "v2RowsNotArray" ->
         [format |-> "v2", fields |-> Arr(SampleFields), rows |-> Str(txtAuto)]
    [] kind = "v2NoFields" ->
         [format |-> "v2", fields |-> Arr(<<>>), rows |-> Arr(RowsOf(r))]
    [] kind = "v2NullRow" ->
         [format |-> "v2", fields |-> Arr(<<>>), rows |-> Arr(<<NullRecord>>)]
    [] kind = "ckan" ->
         [format |-> "ckan", fields |-> Arr(SampleFields), rows |-> Arr(RowsOf(r))]
    [] kind = "ckanEmpty" ->
         [format |-> "ckan", fields |-> Arr(<<>>), rows |-> Arr(<<>>)]
    [] OTHER -> [format |-> "unknown", fields |-> Undef, rows |-> Undef]

\* the errors that reach the catch-handler
ErrNetwork == [name |-> "TypeError", message |-> "Failed to fetch"]
ErrHttp == [name |-> "Error", message |-> "HTTP 500 Internal Server Error - {}"]
ErrSyntax == [name |-> "SyntaxError", message |-> "Unexpected end of JSON input"]
ErrNoMessage == [name |-> "Error", message |-> ""]
ErrKeys ==
  [name |-> "TypeError", message |-> "Cannot convert undefined or null to object"]
NetworkMessages == {"Failed to fetch", "NetworkError when attempting to fetch resource."}

\* lines 609-634: the fields of the response, or the keys of the first row
\* in the order the row lists them
processedFields(flds, rows) ==
  IF Len(flds.s) > 0 THEN {flds}
  ELSE IF Len(rows.s) > 0
    THEN {Arr(order) :
            order \in {o \in [1..Cardinality(DOMAIN rows.s[1].f) -> DOMAIN rows.s[1].f] :
                         IsInjective(o)}}
  ELSE {Arr(<<>>)}

\* line 628: Object.keys(firstRow) of a null row throws
dataThrows(apiData) ==
  /\ apiData.format = "v2"
  /\ Len(apiData.fields.s) = 0
  /\ Len(apiData.rows.s) > 0
  /\ IsArray(apiData.rows)
  /\ apiData.rows.s[1].null

\* lines 657-694 and 715-749: the try block around computeLabels; the
\* catch of the v2 branch sets the error, the one of the CKAN branch only
\* logs
tryLabels(st, flds, recs, silent) ==
  IF validateInputs(flds, recs) # ""
    THEN IF silent THEN st
         ELSE [st EXCEPT !.error =
                 [message |-> "Error processing labels: "
                                \o validateInputs(flds, recs)
                                \o ". Check console for details."]]
  ELSE Bind(<<flds.s, recs.s>>,
            LAMBDA arg :
              Bind(computeLabels(arg[1], arg[2]),
                   LAMBDA l :
                     [st EXCEPT !.xKey = l.x,
                                !.yKey = l.y,
                                !.series = OrElse(l.series, Str(<<>>)),
                                !.sumData = shouldSumData(arg[2], l.x, l.y),
                                !.useBarChart = shouldUseBarChart(arg[2], l.x, arg[1])]))

\* lines 590-761: the second then-handler on the parsed body.  The v2 branch
\* (590-704) takes the processed fields and calls computeLabels when fields
\* and rows are not empty; the CKAN branch (705-752) takes the fields of the
\* result and calls computeLabels when it has fields and records
onData(st, apiData) ==
  IF apiData.format \notin {"v2", "ckan"}
    THEN {[st EXCEPT !.error =
             [message |-> "API error: Unknown response format from dataset endpoint"],
                     !.isLoaded = TRUE]}
  ELSE {[(IF (IF apiData.format = "v2"
                THEN Len(pf.s) > 0 /\ Len(apiData.rows.s) > 0
              ELSE ~Falsy(pf) /\ ~Falsy(apiData.rows))
            THEN tryLabels([st EXCEPT !.error = NoError, !.fields = pf,
                                      !.records = apiData.rows],
                           pf, apiData.rows, apiData.format = "ckan")
          ELSE [st EXCEPT !.error = NoError, !.fields = pf,
                          !.records = apiData.rows])
         EXCEPT !.isLoaded = TRUE] :
          pf \in IF apiData.format = "v2"
                   THEN processedFields(apiData.fields, apiData.rows)
                 ELSE {apiData.fields}}

\* lines 771-784: the catch-handler
onCatch(st, err) ==
  [st EXCEPT !.error =
     [message |-> "Failed to fetch dataset. "
        \o (IF err.message \in NetworkMessages
              THEN "Network error - please check your connection or try again later."
            ELSE IF err.message # "" THEN err.message
            ELSE "Unknown error occurred.")],
             !.isLoaded = TRUE]

InitFetch ==
  /\ FetchIdle
  /\ CompareIdle
  /\ DateIdle
  /\ fields = Undef
  /\ records = Undef
  /\ xKey = Str(<<>>)
  /\ yKey = Str(<<>>)
  /\ series = Str(<<>>)
  /\ sumData = TRUE
  /\ useBarChart = FALSE
  /\ dataset = <<>>
  /\ emitted = <<>>
  /\ domain = AutoDomain
  /\ error = NoError
  /\ pc = "idle"

\* a handler of request r found it stale and returned
Drop(r) ==
  /\ requests' = [requests EXCEPT ![r].phase = "dropped"]
  /\ UNCHANGED <<pipelineVars, isLoaded>>

\* lines 490-531: the effect on a change of resourceID, limit or organisation
\* aborts the request before, takes the next request id, resets the state and
\* issues the request
Select ==
  /\ currentRequestId < MaxRequests
  /\ currentRequestId' = currentRequestId + 1
  /\ requests' =
       Append([i \in 1..Len(requests) |-> [requests[i] EXCEPT !.aborted = TRUE]],
              [phase |-> "fetching", aborted |-> FALSE])
  /\ \E old \in {State} : \E st \in {resetState(old)} :
       \E shown \in render(old, st) : Store(shown)
  /\ UNCHANGED <<emitted, pc, compareVars, dateVars>>

\* lines 532-575: the response arrived; the first then-handler asks for its
\* body, as JSON when the status is ok and as text otherwise
onResponse(r, ok) ==
  /\ requests[r].phase = "fetching"
  /\ IF IsStale(requests[r].aborted, r, currentRequestId)
       THEN Drop(r)
     ELSE /\ requests' = [requests EXCEPT ![r].phase = IF ok THEN "json" ELSE "text"]
          /\ UNCHANGED <<pipelineVars, isLoaded>>
  /\ UNCHANGED <<currentRequestId, pc, compareVars, dateVars>>

\* lines 545-571 and 762-785: the catch-handler after fetch or res.json()
\* rejected, or after the text of an error response was read and the handler
\* on it threw; it sets the error and isLoaded, no dependency of the memo
Thrown(kind) ==
  IF kind = "rejected" THEN {ErrNetwork, ErrSyntax, ErrNoMessage} ELSE {ErrHttp}
onFailure(r, kind) ==
  /\ IF kind = "rejected" THEN requests[r].phase \in {"fetching", "json"}
     ELSE requests[r].phase = "text"
  /\ IF IsStale(requests[r].aborted, r, currentRequestId)
       THEN Drop(r)
     ELSE /\ requests' = [requests EXCEPT ![r].phase = "done"]
          /\ \E st \in {State} : \E err \in Thrown(kind) : Store(onCatch(st, err))
          /\ UNCHANGED emitted
  /\ UNCHANGED <<currentRequestId, pc, compareVars, dateVars>>

\* lines 576-785: the body was parsed; the second then-handler runs, and the
\* catch-handler after it when it throws
onApiData(r, kind) ==
  /\ requests[r].phase = "json"
  /\ IF IsStale(requests[r].aborted, r, currentRequestId)
       THEN Drop(r)
     ELSE /\ requests' = [requests EXCEPT ![r].phase = "done"]
          /\ \E apiData \in {Response(r, kind)} : \E old \in {State} :
               \E st \in IF dataThrows(apiData) THEN {onCatch(old, ErrKeys)}
                          ELSE onData(old, apiData) :
                 \E shown \in render(old, st) : Store(shown)
          /\ UNCHANGED emitted
  /\ UNCHANGED <<currentRequestId, pc, compareVars, dateVars>>

\* the next handler of the promise chain of request r
Settle(r) ==
  \/ \E ok \in BOOLEAN : onResponse(r, ok)
  \/ \E kind \in {"rejected", "errorBody"} : onFailure(r, kind)
  \/ \E kind \in ResponseKinds : onApiData(r, kind)

NextFetch == Select \/ \E r \in DOMAIN requests : Settle(r)

SpecFetch == InitFetch /\ [][NextFetch]_vars

\* every request is answered or fails, the body of every response is read or
\* fails to be read, and the handler of a settled promise runs
SpecFetchLive ==
  SpecFetch /\ \A r \in 1..MaxRequests : WF_vars(r \in DOMAIN requests /\ Settle(r))

StaleRequests == {r \in DOMAIN requests : r # currentRequestId}

\* C25: a handler of a request that is not the most recently issued one
\* leaves result, xKey, yKey, series, sumData, useBarChart, error and
\* isLoaded as they are, whenever it runs.
C25_StaleIgnored ==
  [][\A r \in StaleRequests :
       currentRequestId' = currentRequestId /\ requests'[r] # requests[r] =>
         UNCHANGED <<fields, records, xKey, yKey, series, sumData, useBarChart,
                     error, isLoaded>>]_vars

\* the response of an earlier request was dropped after the latest request
\* had filled the chart
C25_Witness ==
  /\ currentRequestId > 1
  /\ requests[currentRequestId].phase = "done"
  /\ xKey = Str(idYear)
  /\ isLoaded
  /\ \E r \in StaleRequests : requests[r].phase = "dropped"

\* C26: while request r is the latest one and the chart is loading,
\* eventually isLoaded is true or a later request has been issued.
C26_LoadingEnds ==
  \A r \in 1..MaxRequests :
    (currentRequestId = r /\ ~isLoaded) ~> (isLoaded \/ currentRequestId # r)

\* the latest of several requests ended with an error and the chart is loaded
C26_Witness ==
  /\ currentRequestId > 1
  /\ requests[currentRequestId].phase = "done"
  /\ error # NoError
  /\ isLoaded

\* C27: issuing a request leaves result, dataset, the keys, the series,
\* useBarChart and the domain at their defaults, and the dataset is at every
\* moment empty or the processed dataset of the rows of the latest request.
C27_NoStaleChart ==
  [][/\ currentRequestId' # currentRequestId =>
          /\ fields' = Undef /\ records' = Undef
          /\ DOMAIN dataset' = {}
          /\ xKey' = Str(<<>>) /\ yKey' = Str(<<>>) /\ series' = Str(<<>>)
          /\ useBarChart' = FALSE
          /\ domain' = AutoDomain
     /\ DOMAIN dataset' # {} =>
          dataset' \in processedDataset(RowsOf(currentRequestId'), xKey', yKey',
                                        series', sumData')]_vars

\* a later request was issued after a chart had been drawn, and its rows are
\* on the chart
C27_Witness ==
  /\ currentRequestId > 1
  /\ requests[1].phase = "done"
  /\ DOMAIN dataset # {}
=============================================================================
